---- MODULE Spec2Model ----
(***************************************************************************)
(* Model of the country blocker's reconciliation core:                     *)
(*   - IPdenyFetcher.populate_ipset_from_file (the "apply" protocol that   *)
(*     replaces the membership of one named set), one ipset command per    *)
(*     step, so that every instant an outside matcher can observe is a     *)
(*     state of the model;                                                 *)
(*   - IPdenyFetcher.download_zone (the "fetch" retry loop);               *)
(*   - IPdenyFetcher.run / process_country (the loop over the countries    *)
(*     and families, calling fetch and apply);                             *)
(*   - FirewallUpdater.update_firewall ("reconcile": one rule per set,     *)
(*     orphaned rules deleted by line number).                             *)
(* The kernel's set subsystem is the variable sets; the names referenced   *)
(* by packet-filter rules are the variable refs; the rules of the chain,  *)
(* in order, are the variable chain.                                       *)
(***************************************************************************)
EXTENDS Integers, Sequences, FiniteSets, TLC

VARIABLES config, sets, refs, ap, prev, applied, dl, chain, fw, run, files, ctl, host

vars == <<config, sets, refs, ap, prev, applied, dl, chain, fw, run, files, ctl, host>>

(***************************************************************************)
(* Bounds of the model.                                                    *)
(***************************************************************************)
MaxLines == 2          \* longest zone file, in lines
MaxRetriesBound == 3   \* largest configured HTTP_RETRIES explored

(***************************************************************************)
(* Names.                                                                  *)
(***************************************************************************)
IPSET_PREFIX == "ipdeny"

Countries == {"nl"}

Versions == {"v4", "v6"}

\* f"{prefix}-{country}-v4" / f"{prefix}-{country}-v6"
FinalName(country, version) == IPSET_PREFIX \o "-" \o country \o "-" \o version

Finals == {FinalName(c, v) : c \in Countries, v \in Versions}

\* temp_name = f"{ipset_name}-tmp"
TempName(ipset_name) == ipset_name \o "-tmp"

\* another value of IPSET_PREFIX in the configuration file, and the sets a
\* fetcher run under it leaves
OtherPrefix == "deny"

OtherFinals == {OtherPrefix \o "-" \o c \o "-" \o v : c \in Countries, v \in Versions}

\* a second country of COUNTRIES, for the run over several countries
MoreCountries == {"de"}

MoreFinals == {FinalName(c, v) : c \in MoreCountries, v \in Versions}

SetNames ==
    Finals \cup {TempName(n) : n \in Finals} \cup OtherFinals
    \cup MoreFinals \cup {TempName(n) : n \in MoreFinals}

\* Python's  sub in s  on strings
Contains(s, sub) ==
    \E i \in 1..(Len(s) - Len(sub) + 1) : SubSeq(s, i, i + Len(sub) - 1) = sub

\* family = 'inet6' if '-v6' in ipset_name else 'inet'
FamilyOf(ipset_name) == IF Contains(ipset_name, "-v6") THEN "inet6" ELSE "inet"

(***************************************************************************)
(* Zone files: sequences of text lines as  for line in f  yields them.     *)
(***************************************************************************)
Whitespace == {" ", "\n"}

Lines == {" \n", " # c\n", "1.0.0.0/8\n", " 2.0.0.0/8 \n", "bad\n"}

RECURSIVE LStrip(_)
LStrip(s) ==
    IF s = "" THEN ""
    ELSE IF SubSeq(s, 1, 1) \in Whitespace THEN LStrip(SubSeq(s, 2, Len(s)))
    ELSE s

RECURSIVE RStrip(_)
RStrip(s) ==
    IF s = "" THEN ""
    ELSE IF SubSeq(s, Len(s), Len(s)) \in Whitespace
         THEN RStrip(SubSeq(s, 1, Len(s) - 1))
    ELSE s

\* str.strip()
Strip(s) == RStrip(LStrip(s))

\* str.startswith
StartsWith(s, pre) == Len(s) >= Len(pre) /\ SubSeq(s, 1, Len(pre)) = pre

\* if ip and not ip.startswith('#')
IsEntry(ip) == ip # "" /\ ~StartsWith(ip, "#")

RECURSIVE SeqsUpTo(_, _)
SeqsUpTo(S, n) ==
    IF n = 0 THEN {<<>>}
    ELSE LET shorter == SeqsUpTo(S, n - 1)
         IN  shorter \cup {Append(q, x) : q \in shorter, x \in S}

ZoneFiles == SeqsUpTo(Lines, MaxLines)

\* ranges the kernel accepts in  ipset add  (a syntax error is refused)
ValidRanges == {"1.0.0.0/8", "2.0.0.0/8"}

(***************************************************************************)
(* The kernel's set subsystem.                                             *)
(***************************************************************************)
Absent == [exists |-> FALSE, family |-> "none", members |-> {}]

\* ipset list NAME: return code 0 iff the set exists
ipset_exists(name) == sets[name].exists

KCreate(name, family) ==
    [sets EXCEPT ![name] = [exists |-> TRUE, family |-> family, members |-> {}]]

\* a flush that takes the set away with its members
KFlushDestroys(name) == [sets EXCEPT ![name] = Absent]

\* ipset flush NAME
KFlush(name) == [sets EXCEPT ![name].members = {}]

KAdd(name, ip) == [sets EXCEPT ![name].members = @ \cup {ip}]

\* a set referenced by a rule is "in use by a kernel component"
CanDestroy(name) == sets[name].exists /\ name \notin refs

KDestroy(name) == [sets EXCEPT ![name] = Absent]

CanRename(from, to) ==
    sets[from].exists /\ ~sets[to].exists /\ from \notin refs

\* a rename that leaves the old name in place
KRenameCopies(from, to) == [sets EXCEPT ![to] = sets[from]]

\* ipset rename FROM TO
KRename(from, to) == [sets EXCEPT ![to] = sets[from], ![from] = Absent]

CanSwap(a, b) ==
    sets[a].exists /\ sets[b].exists /\ sets[a].family = sets[b].family

\* a swap that reports success and exchanges nothing
KSwapNothing(a, b) == sets

\* the two names exchange their sets; rule references stay with the names
KSwap(a, b) == [sets EXCEPT ![a] = sets[b], ![b] = sets[a]]

\* why the kernel refuses  ipset destroy NAME : the set is referenced by a
\* rule ("in use by a kernel component"), or another error
DestroyRefusal(name) ==
    IF sets[name].exists /\ name \in refs THEN "busy" ELSE "error"

\* what destroy_ipset returns after  ipset destroy : True on return code 0;
\* on a non-zero code the busy text is logged at debug level, anything else
\* as a warning, and False is returned in both cases
destroy_returns(outcome) ==
    IF outcome = "ok" THEN TRUE
    ELSE IF outcome = "busy" THEN FALSE
    ELSE FALSE

(***************************************************************************)
(* Packet-filter rules, as far as the set subsystem sees them: the names   *)
(* of the sets that some rule matches on.  The fetcher and the firewall    *)
(* tools run one after the other, so rules change while no apply runs.     *)
(***************************************************************************)
Writers == {1}

RunIdle ==
    [pc |-> "idle", countries |-> <<>>, ci |-> 0, version |-> "v4",
     success |-> TRUE, success_count |-> 0, fail_count |-> 0, exit |-> -1,
     \* history of the run: one entry per fetch that was made, and the
     \* sets as they were when the run began
     log |-> <<>>, entry |-> <<>>]

Idle ==
    [pc |-> "idle", name |-> "", zone |-> <<>>, idx |-> 0, ret |-> "none",
     result |-> "none", path |-> "none",
     \* history of the call, kept for stating the properties
     faulted |-> FALSE, fresh |-> TRUE, addFailed |-> FALSE, swapFailed |-> FALSE,
     busy |-> FALSE, old |-> Absent,
     staged |-> {}, stagedDone |-> FALSE,
     repeat |-> FALSE, prevMembers |-> {},
     submitted |-> {}, dcause |-> "none", dret |-> TRUE,
     flushAbsent |-> FALSE, overlap |-> FALSE]

NoPrev == [name |-> "", zone |-> <<>>, members |-> {}]

DlIdle ==
    [pc |-> "idle", max_retries |-> 0, retry_delay |-> 0, attempt |-> 0,
     wait_time |-> 0, events |-> <<>>, result |-> "none",
     country |-> "", version |-> "", zone_file |-> "",
     \* history of the call: the body of the response that was stored, and
     \* what the file held when the call began
     body |-> <<>>, earlier |-> <<>>]

AllIdle == \A p \in Writers : ap[p].pc = "idle"

\* FirewallUpdater.add_rule for one enumerated set: iptables -C, then -A
AddRule(setname) ==
    /\ AllIdle /\ dl.pc = "idle"
    /\ sets[setname].exists
    /\ setname \notin refs
    /\ refs' = refs \cup {setname}
    /\ UNCHANGED <<ctl, host, files, config, chain, fw, run, sets, ap, prev, applied, dl>>

\* one pass of the delete loop of IPdenyControl.cmd_remove_rules
RemoveRule(setname) ==
    /\ AllIdle /\ dl.pc = "idle"
    /\ setname \in refs
    /\ refs' = refs \ {setname}
    /\ UNCHANGED <<ctl, host, files, config, chain, fw, run, sets, ap, prev, applied, dl>>

(***************************************************************************)
(* IPdenyFetcher.populate_ipset_from_file, "apply": one step per command.  *)
(* A ...Fault action is the same command returning a non-zero code for a   *)
(* reason outside the set state (run_command reports any failure as 1).    *)
(***************************************************************************)
Final(p) == ap[p].name

\* one staging name for every final name
TempShared(p) == TempName(FinalName("nl", "v4"))

\* temp_name = f"{ipset_name}-tmp"
Temp(p) == TempName(ap[p].name)

\* the call began without a left-over staging set and every command so far
\* answered as the state of the sets dictates
Nominal(p) == ap[p].fresh /\ ~ap[p].faulted

Goto(p, pc) == ap' = [ap EXCEPT ![p].pc = pc]

GotoFault(p, pc) == ap' = [ap EXCEPT ![p].pc = pc, ![p].faulted = TRUE]

\* f"{prefix}-{country}-v4" is updated when FETCH_IPV4, ...-v6 when FETCH_IPV6
Enabled(version) ==
    IF version = "v4" THEN config.FETCH_IPV4 ELSE config.FETCH_IPV6

\* process_country calls populate_ipset_from_file(ipset_name, zone_file)
\* for an enabled family of a country; create_ipset(temp_name) begins
Entered(p, ipset_name, zone_file) ==
    LET again == prev.name = ipset_name /\ prev.zone = zone_file
    IN  [ap EXCEPT ![p] =
            [Idle EXCEPT !.pc = "ct_exists", !.name = ipset_name,
                         !.zone = zone_file, !.idx = 1,
                         !.fresh = ~sets[TempName(ipset_name)].exists,
                         !.old = sets[ipset_name],
                         !.repeat = again,
                         !.prevMembers = IF again THEN prev.members ELSE {}]]

ApplyStart(p) ==
    /\ AllIdle /\ dl.pc = "idle"
    /\ \E country \in Countries, version \in Versions, zone_file \in ZoneFiles :
           /\ Enabled(version)
           /\ ap' = Entered(p, FinalName(country, version), zone_file)
    /\ prev' = NoPrev
    /\ UNCHANGED <<ctl, host, files, config, chain, fw, run, sets, refs, applied, dl>>

\* a create_ipset that makes an existing set anew
CreateTempExistsRecreates(p) ==
    /\ ap[p].pc = "ct_exists"
    /\ sets' = IF ipset_exists(Temp(p))
               THEN KCreate(Temp(p), FamilyOf(Final(p))) ELSE sets
    /\ Goto(p, IF ipset_exists(Temp(p)) THEN "add" ELSE "ct_create")
    /\ UNCHANGED <<ctl, host, files, config, chain, fw, run, refs, prev, applied, dl>>

\* create_ipset(temp_name): if self.ipset_exists(name): return True
CreateTempExists(p) ==
    /\ ap[p].pc = "ct_exists"
    /\ Goto(p, IF ipset_exists(Temp(p)) THEN "add" ELSE "ct_create")
    /\ UNCHANGED <<ctl, host, files, config, chain, fw, run, sets, refs, prev, applied, dl>>

\* create_ipset(temp_name): ipset create; on failure apply returns False
CreateTemp(p) ==
    /\ ap[p].pc = "ct_create"
    /\ IF ~sets[Temp(p)].exists
       THEN /\ sets' = KCreate(Temp(p), FamilyOf(Final(p)))
            /\ Goto(p, "add")
       ELSE /\ sets' = sets
            /\ ap' = [ap EXCEPT ![p].pc = "done", ![p].result = "fail",
                                ![p].path = "create_temp_failed"]
    /\ UNCHANGED <<ctl, host, files, config, chain, fw, run, refs, prev, applied, dl>>

CreateTempFault(p) ==
    /\ ap[p].pc = "ct_create"
    /\ ap' = [ap EXCEPT ![p].pc = "done", ![p].result = "fail",
                        ![p].path = "create_temp_failed",
                        ![p].faulted = TRUE]
    /\ UNCHANGED <<ctl, host, files, config, chain, fw, run, sets, refs, prev, applied, dl>>

\* a loop that stops reading at the first blank or comment line
AddLineStopsAtComment(p) ==
    /\ ap[p].pc = "add"
    /\ ap[p].idx <= Len(ap[p].zone)
    /\ LET ip == Strip(ap[p].zone[ap[p].idx])
           added == sets[Temp(p)].exists /\ ip \in ValidRanges
       IN  /\ sets' = IF IsEntry(ip) /\ added THEN KAdd(Temp(p), ip) ELSE sets
           /\ ap' = [ap EXCEPT ![p].idx = IF IsEntry(ip) THEN @ + 1
                                          ELSE Len(ap[p].zone) + 1,
                               ![p].addFailed = @ \/ (IsEntry(ip) /\ ~added),
                               ![p].submitted = IF IsEntry(ip)
                                                THEN @ \cup {ip} ELSE @]
    /\ UNCHANGED <<ctl, host, files, config, chain, fw, run, refs, prev, applied, dl>>

\* a loop that gives up at the first range the kernel refuses
AddLineBreaksOnFailure(p) ==
    /\ ap[p].pc = "add"
    /\ ap[p].idx <= Len(ap[p].zone)
    /\ LET ip == Strip(ap[p].zone[ap[p].idx])
           added == sets[Temp(p)].exists /\ ip \in ValidRanges
       IN  /\ sets' = IF IsEntry(ip) /\ added THEN KAdd(Temp(p), ip) ELSE sets
           /\ ap' = [ap EXCEPT ![p].idx = IF IsEntry(ip) /\ ~added
                                          THEN Len(ap[p].zone) + 1 ELSE @ + 1,
                               ![p].addFailed = @ \/ (IsEntry(ip) /\ ~added),
                               ![p].submitted = IF IsEntry(ip)
                                                THEN @ \cup {ip} ELSE @]
    /\ UNCHANGED <<ctl, host, files, config, chain, fw, run, refs, prev, applied, dl>>

\* one iteration of  for line in f : strip, filter, ipset add ... -exist;
\* a range the kernel refuses only logs a warning
AddLine(p) ==
    /\ ap[p].pc = "add"
    /\ ap[p].idx <= Len(ap[p].zone)
    /\ LET ip == Strip(ap[p].zone[ap[p].idx])
           added == sets[Temp(p)].exists /\ ip \in ValidRanges
       IN  /\ sets' = IF IsEntry(ip) /\ added THEN KAdd(Temp(p), ip) ELSE sets
           /\ ap' = [ap EXCEPT ![p].idx = @ + 1,
                               ![p].addFailed = @ \/ (IsEntry(ip) /\ ~added),
                               ![p].submitted = IF IsEntry(ip)
                                                THEN @ \cup {ip} ELSE @]
    /\ UNCHANGED <<ctl, host, files, config, chain, fw, run, refs, prev, applied, dl>>

\* ipset add returns non-zero: a warning is logged and the loop goes on
AddFault(p) ==
    /\ ap[p].pc = "add"
    /\ ap[p].idx <= Len(ap[p].zone)
    /\ IsEntry(Strip(ap[p].zone[ap[p].idx]))
    /\ ap' = [ap EXCEPT ![p].idx = @ + 1, ![p].faulted = TRUE,
                        ![p].addFailed = TRUE,
                        ![p].submitted =
                            @ \cup {Strip(ap[p].zone[ap[p].idx])}]
    /\ UNCHANGED <<ctl, host, files, config, chain, fw, run, sets, refs, prev, applied, dl>>

\* a read error after which the replacement goes ahead
ReadErrorGoesOn(p) ==
    /\ ap[p].pc = "add"
    /\ ap' = [ap EXCEPT ![p].pc = IF ipset_exists(Final(p))
                                  THEN "ff_exists" ELSE "rename",
                        ![p].path = "read_error", ![p].faulted = TRUE]
    /\ UNCHANGED <<ctl, host, files, config, chain, fw, run, sets, refs, prev, applied, dl>>

\* except Exception while opening or reading the zone file
ReadError(p) ==
    /\ ap[p].pc = "add"
    /\ ap' = [ap EXCEPT ![p].pc = "dt_exists", ![p].ret = "fail",
                        ![p].path = "read_error", ![p].faulted = TRUE]
    /\ UNCHANGED <<ctl, host, files, config, chain, fw, run, sets, refs, prev, applied, dl>>

\* the file is exhausted; if self.ipset_exists(ipset_name):
StageDone(p) ==
    /\ ap[p].pc = "add"
    /\ ap[p].idx > Len(ap[p].zone)
    /\ ap' = [ap EXCEPT ![p].pc = IF ipset_exists(Final(p))
                                  THEN "ff_exists" ELSE "rename",
                        ![p].staged = sets[Temp(p)].members,
                        ![p].stagedDone = TRUE]
    /\ UNCHANGED <<ctl, host, files, config, chain, fw, run, sets, refs, prev, applied, dl>>

\* flush_ipset(ipset_name): if not self.ipset_exists(name): return True
FlushFinalExists(p) ==
    /\ ap[p].pc = "ff_exists"
    /\ ap' = [ap EXCEPT ![p].pc = IF ipset_exists(Final(p))
                                  THEN "ff_flush" ELSE "df_exists",
                        ![p].flushAbsent = @ \/ ~ipset_exists(Final(p))]
    /\ UNCHANGED <<ctl, host, files, config, chain, fw, run, sets, refs, prev, applied, dl>>

\* flush_ipset(ipset_name): ipset flush; the result is not looked at
FlushFinal(p) ==
    /\ ap[p].pc = "ff_flush"
    /\ sets' = IF sets[Final(p)].exists THEN KFlush(Final(p)) ELSE sets
    /\ Goto(p, "df_exists")
    /\ UNCHANGED <<ctl, host, files, config, chain, fw, run, refs, prev, applied, dl>>

FlushFinalFault(p) ==
    /\ ap[p].pc = "ff_flush"
    /\ GotoFault(p, "df_exists")
    /\ UNCHANGED <<ctl, host, files, config, chain, fw, run, sets, refs, prev, applied, dl>>

\* destroy_ipset(ipset_name, flush_first=False): existence check
DestroyFinalExists(p) ==
    /\ ap[p].pc = "df_exists"
    /\ Goto(p, IF ipset_exists(Final(p)) THEN "df_destroy" ELSE "rename")
    /\ UNCHANGED <<ctl, host, files, config, chain, fw, run, sets, refs, prev, applied, dl>>

\* destroy_ipset(ipset_name, flush_first=False): ipset destroy; a set in
\* use by a rule is refused ("in use by a kernel component"), result ignored
DestroyFinal(p) ==
    /\ ap[p].pc = "df_destroy"
    /\ IF CanDestroy(Final(p))
       THEN /\ sets' = KDestroy(Final(p))
            /\ ap' = [ap EXCEPT ![p].pc = "rename", ![p].dcause = "ok",
                                ![p].dret = destroy_returns("ok")]
       ELSE /\ sets' = sets
            /\ ap' = [ap EXCEPT ![p].pc = "rename",
                                ![p].busy = (sets[Final(p)].exists
                                             /\ Final(p) \in refs),
                                ![p].dcause = DestroyRefusal(Final(p)),
                                ![p].dret =
                                    destroy_returns(DestroyRefusal(Final(p)))]
    /\ UNCHANGED <<ctl, host, files, config, chain, fw, run, refs, prev, applied, dl>>

DestroyFinalFault(p) ==
    /\ ap[p].pc = "df_destroy"
    /\ ap' = [ap EXCEPT ![p].pc = "rename", ![p].faulted = TRUE,
                        ![p].dcause = "error",
                        ![p].dret = destroy_returns("error")]
    /\ UNCHANGED <<ctl, host, files, config, chain, fw, run, sets, refs, prev, applied, dl>>

\* ipset rename temp_name ipset_name
Rename(p) ==
    /\ ap[p].pc = "rename"
    /\ IF CanRename(Temp(p), Final(p))
       THEN /\ sets' = KRename(Temp(p), Final(p))
            /\ ap' = [ap EXCEPT ![p].pc = "done", ![p].result = "ok",
                                ![p].path = "rename"]
       ELSE /\ sets' = sets
            /\ Goto(p, "rf_exists")
    /\ UNCHANGED <<ctl, host, files, config, chain, fw, run, refs, prev, applied, dl>>

RenameFault(p) ==
    /\ ap[p].pc = "rename"
    /\ GotoFault(p, "rf_exists")
    /\ UNCHANGED <<ctl, host, files, config, chain, fw, run, sets, refs, prev, applied, dl>>

\* after a failed rename: if self.ipset_exists(ipset_name):
RenameFailedExists(p) ==
    /\ ap[p].pc = "rf_exists"
    /\ Goto(p, IF ipset_exists(Final(p)) THEN "swap" ELSE "cf_exists")
    /\ UNCHANGED <<ctl, host, files, config, chain, fw, run, sets, refs, prev, applied, dl>>

\* ipset swap temp_name ipset_name, checked; then destroy_ipset(temp_name)
Swap(p) ==
    /\ ap[p].pc = "swap"
    /\ IF CanSwap(Temp(p), Final(p))
       THEN /\ sets' = KSwap(Temp(p), Final(p))
            /\ ap' = [ap EXCEPT ![p].pc = "dt_exists", ![p].ret = "ok",
                                ![p].path = "swap"]
       ELSE /\ sets' = sets
            /\ ap' = [ap EXCEPT ![p].pc = "dt_exists", ![p].ret = "fail",
                                ![p].path = "swap_failed",
                                ![p].swapFailed = TRUE]
    /\ UNCHANGED <<ctl, host, files, config, chain, fw, run, refs, prev, applied, dl>>

SwapFault(p) ==
    /\ ap[p].pc = "swap"
    /\ ap' = [ap EXCEPT ![p].pc = "dt_exists", ![p].ret = "fail",
                        ![p].path = "swap_failed", ![p].swapFailed = TRUE,
                        ![p].faulted = TRUE]
    /\ UNCHANGED <<ctl, host, files, config, chain, fw, run, sets, refs, prev, applied, dl>>

\* create_ipset(ipset_name, family): existence check
CreateFinalExists(p) ==
    /\ ap[p].pc = "cf_exists"
    /\ Goto(p, IF ipset_exists(Final(p)) THEN "swap_unchecked" ELSE "cf_create")
    /\ UNCHANGED <<ctl, host, files, config, chain, fw, run, sets, refs, prev, applied, dl>>

\* create_ipset(ipset_name, family): ipset create; on failure
\* destroy_ipset(temp_name) and return False
CreateFinal(p) ==
    /\ ap[p].pc = "cf_create"
    /\ IF ~sets[Final(p)].exists
       THEN /\ sets' = KCreate(Final(p), FamilyOf(Final(p)))
            /\ Goto(p, "swap_unchecked")
       ELSE /\ sets' = sets
            /\ ap' = [ap EXCEPT ![p].pc = "dt_exists", ![p].ret = "fail",
                                ![p].path = "create_final_failed"]
    /\ UNCHANGED <<ctl, host, files, config, chain, fw, run, refs, prev, applied, dl>>

CreateFinalFault(p) ==
    /\ ap[p].pc = "cf_create"
    /\ ap' = [ap EXCEPT ![p].pc = "dt_exists", ![p].ret = "fail",
                        ![p].path = "create_final_failed",
                        ![p].faulted = TRUE]
    /\ UNCHANGED <<ctl, host, files, config, chain, fw, run, sets, refs, prev, applied, dl>>

\* self.run_command(['ipset', 'swap', temp_name, ipset_name]) whose return
\* code is dropped; then destroy_ipset(temp_name) and return True
SwapUnchecked(p) ==
    /\ ap[p].pc = "swap_unchecked"
    /\ sets' = IF CanSwap(Temp(p), Final(p))
               THEN KSwap(Temp(p), Final(p)) ELSE sets
    /\ ap' = [ap EXCEPT ![p].pc = "dt_exists", ![p].ret = "ok",
                        ![p].path = "recreate",
                        ![p].swapFailed = ~CanSwap(Temp(p), Final(p))]
    /\ UNCHANGED <<ctl, host, files, config, chain, fw, run, refs, prev, applied, dl>>

SwapUncheckedFault(p) ==
    /\ ap[p].pc = "swap_unchecked"
    /\ ap' = [ap EXCEPT ![p].pc = "dt_exists", ![p].ret = "ok",
                        ![p].path = "recreate", ![p].swapFailed = TRUE,
                        ![p].faulted = TRUE]
    /\ UNCHANGED <<ctl, host, files, config, chain, fw, run, sets, refs, prev, applied, dl>>

\* return of populate_ipset_from_file with the pending value
Finish(p) == [ap EXCEPT ![p].pc = "done", ![p].result = ap[p].ret]

\* destroy_ipset(temp_name): if not self.ipset_exists(name): return True
DestroyTempExists(p) ==
    /\ ap[p].pc = "dt_exists"
    /\ ap' = IF ipset_exists(Temp(p))
             THEN [ap EXCEPT ![p].pc = "dtf_exists"]
             ELSE Finish(p)
    /\ UNCHANGED <<ctl, host, files, config, chain, fw, run, sets, refs, prev, applied, dl>>

\* destroy_ipset(temp_name): flush_ipset(name), its existence check
DestroyTempFlushExists(p) ==
    /\ ap[p].pc = "dtf_exists"
    /\ ap' = [ap EXCEPT ![p].pc = IF ipset_exists(Temp(p))
                                  THEN "dt_flush" ELSE "dt_destroy",
                        ![p].flushAbsent = @ \/ ~ipset_exists(Temp(p))]
    /\ UNCHANGED <<ctl, host, files, config, chain, fw, run, sets, refs, prev, applied, dl>>

\* the clean-up flushing the live set instead of the staging set
DestroyTempFlushWrongSet(p) ==
    /\ ap[p].pc = "dt_flush"
    /\ sets' = IF sets[Final(p)].exists THEN KFlush(Final(p)) ELSE sets
    /\ Goto(p, "dt_destroy")
    /\ UNCHANGED <<ctl, host, files, config, chain, fw, run, refs, prev, applied, dl>>

\* destroy_ipset(temp_name): flush_ipset(name), ipset flush
DestroyTempFlush(p) ==
    /\ ap[p].pc = "dt_flush"
    /\ sets' = IF sets[Temp(p)].exists THEN KFlush(Temp(p)) ELSE sets
    /\ Goto(p, "dt_destroy")
    /\ UNCHANGED <<ctl, host, files, config, chain, fw, run, refs, prev, applied, dl>>

DestroyTempFlushFault(p) ==
    /\ ap[p].pc = "dt_flush"
    /\ GotoFault(p, "dt_destroy")
    /\ UNCHANGED <<ctl, host, files, config, chain, fw, run, sets, refs, prev, applied, dl>>

\* destroy_ipset(temp_name): ipset destroy; its result is dropped by apply
DestroyTemp(p) ==
    /\ ap[p].pc = "dt_destroy"
    /\ IF CanDestroy(Temp(p))
       THEN /\ sets' = KDestroy(Temp(p))
            /\ ap' = [Finish(p) EXCEPT ![p].dcause = "ok",
                                       ![p].dret = destroy_returns("ok")]
       ELSE /\ sets' = sets
            /\ ap' = [Finish(p) EXCEPT
                          ![p].dcause = DestroyRefusal(Temp(p)),
                          ![p].dret = destroy_returns(DestroyRefusal(Temp(p)))]
    /\ UNCHANGED <<ctl, host, files, config, chain, fw, run, refs, prev, applied, dl>>

DestroyTempFault(p) ==
    /\ ap[p].pc = "dt_destroy"
    /\ ap' = [Finish(p) EXCEPT ![p].faulted = TRUE, ![p].dcause = "error",
                               ![p].dret = destroy_returns("error")]
    /\ UNCHANGED <<ctl, host, files, config, chain, fw, run, sets, refs, prev, applied, dl>>

\* the caller (process_country) has the result; the writer is free again
ApplyReturn(p) ==
    /\ ap[p].pc = "done"
    /\ prev' = IF ap[p].result = "ok" /\ Nominal(p)
               THEN [name |-> ap[p].name, zone |-> ap[p].zone,
                     members |-> sets[ap[p].name].members]
               ELSE NoPrev
    /\ applied' = IF ap[p].result = "ok"
                  THEN applied \cup {ap[p].name} ELSE applied
    /\ ap' = [ap EXCEPT ![p] = Idle]
    /\ UNCHANGED <<ctl, host, files, config, chain, fw, run, sets, refs, dl>>

\* the commands of apply, each answering as the state of the sets dictates
ApplyCommands(p) ==
    \/ CreateTempExists(p) \/ CreateTemp(p)
    \/ AddLine(p) \/ StageDone(p)
    \/ FlushFinalExists(p) \/ FlushFinal(p)
    \/ DestroyFinalExists(p) \/ DestroyFinal(p)
    \/ Rename(p) \/ RenameFailedExists(p)
    \/ Swap(p)
    \/ CreateFinalExists(p) \/ CreateFinal(p)
    \/ SwapUnchecked(p)
    \/ DestroyTempExists(p) \/ DestroyTempFlushExists(p)
    \/ DestroyTempFlush(p)
    \/ DestroyTemp(p)

\* the same commands failing for a reason outside the set state
ApplyFaults(p) ==
    \/ CreateTempFault(p)
    \/ AddFault(p) \/ ReadError(p)
    \/ FlushFinalFault(p)
    \/ DestroyFinalFault(p)
    \/ RenameFault(p)
    \/ SwapFault(p)
    \/ CreateFinalFault(p)
    \/ SwapUncheckedFault(p)
    \/ DestroyTempFlushFault(p)
    \/ DestroyTempFault(p)

ApplyBody(p) == ApplyCommands(p) \/ ApplyFaults(p)

ApplyStep(p) ==
    \/ ApplyStart(p)
    \/ ApplyBody(p)
    \/ ApplyReturn(p)

(***************************************************************************)
(* IPdenyFetcher.download_zone, "fetch": the retry loop.  dl.events is the *)
(* history of the call: the attempts with their outcomes and the sleeps.   *)
(***************************************************************************)
\* if e.code in [503, 502, 504]:  # Temporary server errors
RetryableCodes == {503, 502, 504}

HttpErrorCodes == RetryableCodes \cup {404}

\* what urlopen / read / write can end with in one attempt
Outcomes ==
    {[kind |-> "ok", code |-> 200]}
    \cup {[kind |-> "HTTPError", code |-> c] : c \in HttpErrorCodes}
    \cup {[kind |-> "URLError", code |-> 0], [kind |-> "Exception", code |-> 0]}

TryEvent(attempt, outcome) ==
    [kind |-> "try", attempt |-> attempt, outcome |-> outcome, wait |-> 0]

SleepEvent(wait_time) ==
    [kind |-> "sleep", attempt |-> 0,
     outcome |-> [kind |-> "none", code |-> 0], wait |-> wait_time]

\* a loop that runs one time too many: range(1, max_retries + 2)
InRangeOffByOne(attempt, max_retries) == attempt <= max_retries + 1

\* for attempt in range(1, max_retries + 1)
InRange(attempt, max_retries) == attempt <= max_retries

\* the except clauses: does this failed attempt sleep and continue?
Retries(outcome, attempt, max_retries) ==
    IF outcome.kind = "HTTPError"
    THEN outcome.code \in RetryableCodes /\ attempt < max_retries
    ELSE attempt < max_retries

\* the directories OUTPUT_DIR is set to
OutputDirs == {"/var/lib/ipdeny", "/srv/zones"}

\* zone_file = output_dir / f"{country}-{version}.zone"
ZonePath(output_dir, country, version) ==
    output_dir \o "/" \o country \o "-" \o version \o ".zone"

Paths ==
    {ZonePath(d, c, v) : d \in OutputDirs, c \in Countries \cup MoreCountries,
                         v \in Versions}

\* a path without a file
NoFile == <<"(no file)">>

NoFiles == [path \in Paths |-> NoFile]

\* the response bodies the server sends, as the lines of the zone file
Bodies == SeqsUpTo({"1.0.0.0/8\n", " # c\n"}, 1)

\* a file opened for appending: the old content stays in front
AppendFile(path, data) ==
    [files EXCEPT ![path] = IF @ = NoFile THEN data ELSE @ \o data]

\* with open(zone_file, 'wb') as f: f.write(data)
WriteFile(path, data) == [files EXCEPT ![path] = data]

\* the state of download_zone(country, ipv4) before its first attempt
DlEntered(country, version) ==
    LET zone_file == ZonePath(config.OUTPUT_DIR, country, version)
    IN  [DlIdle EXCEPT !.pc = "attempt",
                       !.max_retries = config.HTTP_RETRIES,
                       !.retry_delay = config.HTTP_RETRY_DELAY,
                       !.attempt = 1,
                       !.country = country, !.version = version,
                       !.zone_file = zone_file,
                       !.earlier = files[zone_file]]

\* download_zone is entered: the configuration is read, the loop starts
DownloadStart ==
    /\ AllIdle /\ dl.pc = "idle"
    /\ \E country \in Countries, version \in Versions :
           dl' = DlEntered(country, version)
    /\ UNCHANGED <<ctl, host, files, config, chain, fw, run, sets, refs, ap, prev, applied>>

\* one pass of the loop body up to the return, the sleep or the fall-through
Attempt(outcome) ==
    /\ dl.pc = "attempt"
    /\ InRange(dl.attempt, dl.max_retries)
    /\ LET seen == Append(dl.events, TryEvent(dl.attempt, outcome))
       IN  IF outcome.kind = "ok"
           THEN \E data \in Bodies :
                    /\ files' = WriteFile(dl.zone_file, data)
                    /\ dl' = [dl EXCEPT !.events = seen, !.pc = "done",
                                        !.result = dl.zone_file,
                                        !.body = data]
           ELSE /\ dl' = IF Retries(outcome, dl.attempt, dl.max_retries)
                         THEN [dl EXCEPT !.events = seen, !.pc = "sleep",
                                         !.wait_time = dl.retry_delay * dl.attempt]
                         ELSE [dl EXCEPT !.events = seen, !.attempt = @ + 1]
                \* an exception after open(zone_file, 'wb') leaves the file
                \* truncated; one before it leaves the file alone
                /\ files' \in {files} \cup
                       (IF outcome.kind = "Exception"
                        THEN {WriteFile(dl.zone_file, <<>>)} ELSE {})
    /\ UNCHANGED <<ctl, host, config, chain, fw, run, sets, refs, ap, prev, applied>>

\* time.sleep(wait_time); continue
Sleep ==
    /\ dl.pc = "sleep"
    /\ dl' = [dl EXCEPT !.events = Append(@, SleepEvent(dl.wait_time)),
                        !.attempt = @ + 1, !.pc = "attempt"]
    /\ UNCHANGED <<ctl, host, files, config, chain, fw, run, sets, refs, ap, prev, applied>>

\* the loop is over without a return: log the failure, return None
Exhausted ==
    /\ dl.pc = "attempt"
    /\ ~InRange(dl.attempt, dl.max_retries)
    /\ dl' = [dl EXCEPT !.pc = "done", !.result = "None"]
    /\ UNCHANGED <<ctl, host, files, config, chain, fw, run, sets, refs, ap, prev, applied>>

\* the caller (process_country) has the result
DownloadReturn ==
    /\ dl.pc = "done"
    /\ dl' = DlIdle
    /\ UNCHANGED <<ctl, host, files, config, chain, fw, run, sets, refs, ap, prev, applied>>


(***************************************************************************)
(* FirewallUpdater.update_firewall, "reconcile": one step per set and per  *)
(* deleted rule.  chain holds the rules of the configured chain in the     *)
(* two tables, in order; a rule's position is its line number.  The tool   *)
(* runs as root; the sets and the configuration change between calls.      *)
(***************************************************************************)
MaxForeign == 1        \* rules of other origin in the chain, both tables

Tables == <<"iptables", "ip6tables">>

\* ipv6 = '-v6' in setname ; iptables = 'ip6tables' if ipv6 else 'iptables'
TableOf(setname) == IF Contains(setname, "-v6") THEN "ip6tables" ELSE "iptables"

\* the rule  -m set --match-set NAME src -j ACTION -m comment --comment ...
ToolRule(setname) == [tool |-> TRUE, setname |-> setname, action |-> "DROP"]

\* a rule some other tool or the administrator put into the chain
ForeignRule == [tool |-> FALSE, setname |-> "", action |-> "ACCEPT"]

\* a rule the administrator wrote by hand to log the packets matching a
\* set:  -m set --match-set NAME src -j LOG , without a comment
ForeignLogRule(setname) == [tool |-> FALSE, setname |-> setname, action |-> "LOG"]

\* the text of a rule in  iptables -L CHAIN -n --line-numbers , after the
\* line number
ListedText(rule) ==
    IF rule.tool
    THEN rule.action \o " all match-set " \o rule.setname
             \o " src /* Country blocker: " \o rule.setname \o " */"
    ELSE IF rule.setname # ""
    THEN rule.action \o " all match-set " \o rule.setname \o " src"
    ELSE rule.action \o " tcp dpt:22"

\* the names that rules hold a kernel reference on
ToolNames(rules) ==
    {rules[i].setname : i \in {j \in DOMAIN rules : rules[j].setname # ""}}

RefsOf(ch) == ToolNames(ch["iptables"]) \cup ToolNames(ch["ip6tables"])

RECURSIVE SetToSeq(_)
SetToSeq(S) ==
    IF S = {} THEN <<>>
    ELSE LET x == CHOOSE x \in S : TRUE IN <<x>> \o SetToSeq(S \ {x})

\* the order in which  ipset list -n  prints the names
ListOrder == SetToSeq(SetNames)

\* a listing that takes every name containing the prefix
get_ipdeny_ipsets_anywhere ==
    SelectSeq(ListOrder, LAMBDA n :
        sets[n].exists /\ Contains(n, config.IPSET_PREFIX \o "-"))

\* if setname.startswith(f"{prefix}-"): ipsets.append(setname)
get_ipdeny_ipsets ==
    SelectSeq(ListOrder, LAMBDA n :
        sets[n].exists /\ StartsWith(n, config.IPSET_PREFIX \o "-"))

\* a check that never finds the rule
rule_exists_never(table, setname) == FALSE

\* iptables -C CHAIN ... : return code 0 iff that very rule is in the chain
rule_exists(table, setname) ==
    \E i \in DOMAIN chain[table] : chain[table][i] = ToolRule(setname)

\* the line numbers of the listed rules that carry the tool's marks and no
\* active set's name:  for setname in active_ipsets: if setname in line
OrphanLines(listing, active_ipsets) ==
    {i \in DOMAIN listing :
        LET line == ListedText(listing[i])
        IN  /\ Contains(line, "Country blocker:") \/ Contains(line, "ipdeny-")
            /\ \A k \in DOMAIN active_ipsets : ~Contains(line, active_ipsets[k])}

Max(S) == CHOOSE x \in S : \A y \in S : y <= x

Min(S) == CHOOSE x \in S : \A y \in S : x <= y

\* the line numbers lowest first
RECURSIVE SortedAscending(_)
SortedAscending(S) ==
    IF S = {} THEN <<>> ELSE <<Min(S)>> \o SortedAscending(S \ {Min(S)})

\* sorted(rules_to_delete, reverse=True)
RECURSIVE SortedReverse(_)
SortedReverse(S) ==
    IF S = {} THEN <<>> ELSE <<Max(S)>> \o SortedReverse(S \ {Max(S)})

\* iptables -D CHAIN NUM on a rule list
DeleteAt(rules, num) ==
    [i \in 1..(Len(rules) - 1) |-> IF i < num THEN rules[i] ELSE rules[i + 1]]

\* iptables -I CHAIN NUM on a rule list
InsertAt(rules, num, rule) ==
    [i \in 1..(Len(rules) + 1) |->
        IF i < num THEN rules[i] ELSE IF i = num THEN rule ELSE rules[i - 1]]

NoChain == [t \in {"iptables", "ip6tables"} |-> <<>>]

MaxChain == 3          \* longest chain a failed check appends to, plus one

FwIdle ==
    [pc |-> "idle", ipsets |-> <<>>, i |-> 0, success_count |-> 0,
     table |-> 1, rules_to_delete |-> <<>>, removed |-> 0,
     result |-> "none", path |-> "none",
     \* history of the call, kept for stating the properties
     clean |-> FALSE, repeat |-> FALSE, faulted |-> FALSE,
     addFailed |-> FALSE, attempted |-> {}, appended |-> {},
     before |-> NoChain, listed |-> <<>>, identified |-> {},
     delFailed |-> {}, delTried |-> 0, allIdentified |-> 0]

FwTable == Tables[fw.table]

\* update_firewall is entered: FIREWALL_ENABLED, then get_ipdeny_ipsets and
\* the two early returns
FwStart ==
    /\ fw.pc = "idle"
    /\ LET ipsets == get_ipdeny_ipsets
           entered == [FwIdle EXCEPT !.repeat = fw.clean, !.before = chain]
       IN  fw' = IF ~config.FIREWALL_ENABLED
                 THEN [entered EXCEPT !.pc = "done", !.result = "True",
                                      !.path = "disabled"]
                 ELSE IF ipsets = <<>>
                 THEN [entered EXCEPT !.pc = "done", !.result = "True",
                                      !.path = "no_sets"]
                 ELSE [entered EXCEPT !.pc = "add", !.ipsets = ipsets,
                                      !.i = 1, !.path = "full"]
    /\ UNCHANGED <<ctl, host, files, config, sets, refs, ap, prev, applied, dl, chain, run>>

\* a call that goes on to the orphan scan when the listing has failed
FwStartListFaultGoesOn ==
    /\ fw.pc = "idle"
    /\ config.FIREWALL_ENABLED
    /\ fw' = [FwIdle EXCEPT !.repeat = fw.clean, !.before = chain,
                            !.pc = "list", !.path = "no_sets",
                            !.faulted = TRUE]
    /\ UNCHANGED <<ctl, host, files, config, sets, refs, ap, prev, applied, dl, chain, run>>

\* ipset list -n  returns non-zero: get_ipdeny_ipsets returns []
FwStartListFault ==
    /\ fw.pc = "idle"
    /\ config.FIREWALL_ENABLED
    /\ fw' = [FwIdle EXCEPT !.repeat = fw.clean, !.before = chain,
                            !.pc = "done", !.result = "True",
                            !.path = "no_sets", !.faulted = TRUE]
    /\ UNCHANGED <<ctl, host, files, config, sets, refs, ap, prev, applied, dl, chain, run>>

\* one pass of  for setname in ipsets : add_rule (iptables -C, then -A)
FwAddRule ==
    /\ fw.pc = "add"
    /\ fw.i <= Len(fw.ipsets)
    /\ LET setname == fw.ipsets[fw.i]
           table == TableOf(setname)
           seen == [fw EXCEPT !.i = @ + 1, !.success_count = @ + 1,
                              !.attempted = @ \cup {setname}]
       IN  IF rule_exists(table, setname)
           THEN /\ fw' = seen
                /\ UNCHANGED <<chain, refs>>
           ELSE /\ chain' = [chain EXCEPT ![table] = Append(@, ToolRule(setname))]
                /\ refs' = refs \cup {setname}
                /\ fw' = [seen EXCEPT !.appended = @ \cup {setname}]
    /\ UNCHANGED <<ctl, host, files, config, sets, ap, prev, applied, dl, run>>

\* iptables -C returns non-zero although the rule is in the chain (the
\* command could not run, the xtables lock was held): rule_exists gives
\* False and add_rule goes on to  iptables -A
FwAddRuleCheckFault ==
    /\ fw.pc = "add"
    /\ fw.i <= Len(fw.ipsets)
    /\ rule_exists(TableOf(fw.ipsets[fw.i]), fw.ipsets[fw.i])
    /\ Len(chain[TableOf(fw.ipsets[fw.i])]) < MaxChain
    /\ LET setname == fw.ipsets[fw.i]
       IN  /\ chain' = [chain EXCEPT ![TableOf(setname)] =
                            Append(@, ToolRule(setname))]
           /\ fw' = [fw EXCEPT !.i = @ + 1, !.success_count = @ + 1,
                               !.attempted = @ \cup {setname},
                               !.appended = @ \cup {setname},
                               !.faulted = TRUE]
    /\ UNCHANGED <<ctl, host, files, config, sets, refs, ap, prev, applied, dl, run>>

\* an add_rule whose failure ends the loop
FwAddRuleFaultBreaks ==
    /\ fw.pc = "add"
    /\ fw.i <= Len(fw.ipsets)
    /\ ~rule_exists(TableOf(fw.ipsets[fw.i]), fw.ipsets[fw.i])
    /\ fw' = [fw EXCEPT !.i = Len(fw.ipsets) + 1, !.addFailed = TRUE,
                        !.faulted = TRUE,
                        !.attempted = @ \cup {fw.ipsets[fw.i]}]
    /\ UNCHANGED <<ctl, host, files, config, sets, refs, ap, prev, applied, dl, chain, run>>

\* iptables -A returns non-zero: add_rule logs and returns False
FwAddRuleFault ==
    /\ fw.pc = "add"
    /\ fw.i <= Len(fw.ipsets)
    /\ ~rule_exists(TableOf(fw.ipsets[fw.i]), fw.ipsets[fw.i])
    /\ fw' = [fw EXCEPT !.i = @ + 1, !.addFailed = TRUE, !.faulted = TRUE,
                        !.attempted = @ \cup {fw.ipsets[fw.i]}]
    /\ UNCHANGED <<ctl, host, files, config, sets, refs, ap, prev, applied, dl, chain, run>>

\* the add loop is over; remove_orphaned_rules begins with iptables
FwAddDone ==
    /\ fw.pc = "add"
    /\ fw.i > Len(fw.ipsets)
    /\ fw' = [fw EXCEPT !.pc = "list", !.table = 1, !.before = chain]
    /\ UNCHANGED <<ctl, host, files, config, sets, refs, ap, prev, applied, dl, chain, run>>

\* iptables -L CHAIN -n --line-numbers, and the scan for orphaned rules
FwListRules ==
    /\ fw.pc = "list"
    /\ LET found == OrphanLines(chain[FwTable], fw.ipsets)
       IN  fw' = [fw EXCEPT !.pc = "delete",
                            !.rules_to_delete = SortedReverse(found),
                            !.listed = chain[FwTable],
                            !.identified = found, !.delFailed = {},
                            !.allIdentified = @ + Cardinality(found)]
    /\ UNCHANGED <<ctl, host, files, config, sets, refs, ap, prev, applied, dl, chain, run>>

\* the listing returns non-zero:  continue  with the next table
FwListRulesFault ==
    /\ fw.pc = "list"
    /\ fw' = [fw EXCEPT !.pc = "delete", !.rules_to_delete = <<>>,
                        !.listed = chain[FwTable], !.identified = {},
                        !.delFailed = {}, !.faulted = TRUE]
    /\ UNCHANGED <<ctl, host, files, config, sets, refs, ap, prev, applied, dl, chain, run>>

\* one pass of the delete loop: iptables -D CHAIN line_num
FwDelete ==
    /\ fw.pc = "delete"
    /\ fw.rules_to_delete # <<>>
    /\ LET line_num == Head(fw.rules_to_delete)
           gone == [chain EXCEPT ![FwTable] = DeleteAt(@, line_num)]
           tried == [fw EXCEPT !.rules_to_delete = Tail(@), !.delTried = @ + 1]
       IN  IF line_num <= Len(chain[FwTable])
           THEN /\ chain' = gone
                /\ refs' = RefsOf(gone)
                /\ fw' = [tried EXCEPT !.removed = @ + 1]
           ELSE /\ UNCHANGED <<chain, refs>>
                /\ fw' = tried
    /\ UNCHANGED <<ctl, host, files, config, sets, ap, prev, applied, dl, run>>

\* iptables -D returns non-zero: nothing is counted, the loop goes on
FwDeleteFault ==
    /\ fw.pc = "delete"
    /\ fw.rules_to_delete # <<>>
    /\ fw' = [fw EXCEPT !.rules_to_delete = Tail(@), !.delTried = @ + 1,
                        !.delFailed = @ \cup {Head(fw.rules_to_delete)},
                        !.faulted = TRUE]
    /\ UNCHANGED <<ctl, host, files, config, sets, refs, ap, prev, applied, dl, chain, run>>

\* for ipv6 in [False, True] goes on; after ip6tables
\* return success_count == len(ipsets)
FwTableDone ==
    /\ fw.pc = "delete"
    /\ fw.rules_to_delete = <<>>
    /\ fw' = IF fw.table < Len(Tables)
             THEN [fw EXCEPT !.pc = "list", !.table = @ + 1]
             ELSE [fw EXCEPT !.pc = "done",
                             !.result = IF fw.success_count = Len(fw.ipsets)
                                        THEN "True" ELSE "False"]
    /\ UNCHANGED <<ctl, host, files, config, sets, refs, ap, prev, applied, dl, chain, run>>

\* main() has the flag; the next call is a call in a row when this one met
\* no failing command
FwReturn ==
    /\ fw.pc = "done"
    /\ fw' = [FwIdle EXCEPT !.clean = ~fw.faulted]
    /\ UNCHANGED <<ctl, host, files, config, sets, refs, ap, prev, applied, dl, chain, run>>

NotClean == [fw EXCEPT !.clean = FALSE]

ForeignCount ==
    Len(SelectSeq(chain["iptables"], LAMBDA r : ~r.tool))
    + Len(SelectSeq(chain["ip6tables"], LAMBDA r : ~r.tool))

\* between two calls: a fetcher run creates a set (create_ipset)
SetCreated(name) ==
    /\ fw.pc = "idle"
    /\ ~sets[name].exists
    /\ sets' = KCreate(name, FamilyOf(name))
    /\ fw' = NotClean
    /\ UNCHANGED <<ctl, host, files, config, refs, ap, prev, applied, dl, chain, run>>

\* between two calls: a set no rule references is destroyed (destroy_ipset)
SetDestroyed(name) ==
    /\ fw.pc = "idle"
    /\ CanDestroy(name)
    /\ sets' = KDestroy(name)
    /\ fw' = NotClean
    /\ UNCHANGED <<ctl, host, files, config, refs, ap, prev, applied, dl, chain, run>>

\* between two calls: IPSET_PREFIX is edited in the configuration file
PrefixChanged ==
    /\ fw.pc = "idle"
    /\ config' = [config EXCEPT !.IPSET_PREFIX =
                      IF @ = IPSET_PREFIX THEN OtherPrefix ELSE IPSET_PREFIX]
    /\ fw' = NotClean
    /\ UNCHANGED <<ctl, host, files, sets, refs, ap, prev, applied, dl, chain, run>>

\* the rules of other origin that can be put into the table: one that
\* matches no set, and one that logs the packets of an existing set
ForeignRules(table) ==
    {ForeignRule} \cup
    {ForeignLogRule(n) :
        n \in {m \in {FinalName("nl", "v6")} :
                  sets[m].exists /\ TableOf(m) = table}}

\* between two calls: a rule of other origin is inserted into the chain;
\* a rule matching a set holds a reference on it
ForeignInserted(table, num, rule) ==
    /\ fw.pc = "idle"
    /\ ForeignCount < MaxForeign
    /\ num \in 1..(Len(chain[table]) + 1)
    /\ chain' = [chain EXCEPT ![table] = InsertAt(@, num, rule)]
    /\ refs' = IF rule.setname # "" THEN refs \cup {rule.setname} ELSE refs
    /\ fw' = IF rule.setname # "" THEN NotClean ELSE fw
    /\ UNCHANGED <<ctl, host, files, config, sets, ap, prev, applied, dl, run>>

\* DEFAULT_CONFIG of the firewall updater, with the values of the file
FwConfigs ==
    [IPSET_PREFIX : {IPSET_PREFIX, OtherPrefix}, FIREWALL_ENABLED : BOOLEAN,
     FIREWALL_ACTION : {"DROP"}, FIREWALL_CHAIN : {"INPUT"}]

(***************************************************************************)
(* IPdenyFetcher.run and process_country: the loop over the countries and  *)
(* the enabled families, calling fetch and apply.  The fetcher runs as     *)
(* root.                                                                   *)
(***************************************************************************)
MaxPairs == 2          \* most (country, family) pairs of one run

RunWriter == 1

Country == run.countries[run.ci]

LogEntry(fetch, apply, held) ==
    [country |-> Country, version |-> run.version, fetch |-> fetch,
     apply |-> apply, held |-> held]

\* the family is dealt with: on to IPv6, or process_country returns and
\* run counts the country
NextFamily(r) ==
    IF r.version = "v4"
    THEN [r EXCEPT !.pc = "family", !.version = "v6"]
    ELSE [r EXCEPT !.pc = "country", !.ci = @ + 1,
                   !.success_count = IF r.success THEN @ + 1 ELSE @,
                   !.fail_count = IF r.success THEN @ ELSE @ + 1]

\* run(): countries = COUNTRIES.split(); none configured: return 0
RunStart ==
    /\ run.pc = "idle"
    /\ run' = IF config.COUNTRIES = <<>>
              THEN [RunIdle EXCEPT !.pc = "exit", !.exit = 0, !.entry = sets]
              ELSE [RunIdle EXCEPT !.pc = "country", !.ci = 1,
                                   !.countries = config.COUNTRIES,
                                   !.entry = sets]
    /\ UNCHANGED <<ctl, host, files, config, sets, refs, ap, prev, applied, dl, chain, fw>>

\* for country in countries: process_country begins with success = True;
\* after the last one  return 0 if fail_count == 0 else 1
RunProcessCountry ==
    /\ run.pc = "country"
    /\ run' = IF run.ci <= Len(run.countries)
              THEN [run EXCEPT !.pc = "family", !.version = "v4",
                               !.success = TRUE]
              ELSE [run EXCEPT !.pc = "exit",
                               !.exit = IF run.fail_count = 0 THEN 0 ELSE 1]
    /\ UNCHANGED <<ctl, host, files, config, sets, refs, ap, prev, applied, dl, chain, fw>>

\* if FETCH_IPV4 / FETCH_IPV6 is 'true': zone_file = download_zone(...)
RunFamily ==
    /\ run.pc = "family"
    /\ IF Enabled(run.version)
       THEN /\ run' = [run EXCEPT !.pc = "fetch"]
            /\ dl' = DlEntered(Country, run.version)
       ELSE /\ run' = NextFamily(run)
            /\ dl' = dl
    /\ UNCHANGED <<ctl, host, files, config, sets, refs, ap, prev, applied, chain, fw>>

\* a process_country that empties the live set when the download failed
RunFetchedFlushes ==
    /\ run.pc = "fetch"
    /\ dl.pc = "done"
    /\ dl' = DlIdle
    /\ IF dl.result = "None"
       THEN /\ run' = NextFamily(
                   [run EXCEPT !.success = FALSE,
                               !.log = Append(@, LogEntry("None", "none", FALSE))])
            /\ ap' = ap
            /\ sets' = IF sets[FinalName(Country, run.version)].exists
                       THEN KFlush(FinalName(Country, run.version)) ELSE sets
       ELSE IF ~config.IPSET_ENABLED
       THEN /\ run' = NextFamily(
                   [run EXCEPT !.log = Append(@, LogEntry("zone_file", "none", TRUE))])
            /\ ap' = ap
            /\ sets' = sets
       ELSE /\ run' = [run EXCEPT !.pc = "apply"]
            /\ ap' = Entered(RunWriter, FinalName(Country, run.version),
                             files[dl.result])
            /\ sets' = sets
    /\ UNCHANGED <<ctl, host, files, config, refs, prev, applied, chain, fw>>

\* a process_country that does not look at IPSET_ENABLED
RunFetchedIgnoresSwitch ==
    /\ run.pc = "fetch"
    /\ dl.pc = "done"
    /\ dl' = DlIdle
    /\ IF dl.result = "None"
       THEN /\ run' = NextFamily(
                   [run EXCEPT !.success = FALSE,
                               !.log = Append(@, LogEntry("None", "none", FALSE))])
            /\ ap' = ap
       ELSE /\ run' = [run EXCEPT !.pc = "apply"]
            /\ ap' = Entered(RunWriter, FinalName(Country, run.version),
                             files[dl.result])
    /\ UNCHANGED <<ctl, host, files, config, sets, refs, prev, applied, chain, fw>>

\* a process_country that returns as soon as a download has failed
RunFetchedGivesUp ==
    /\ run.pc = "fetch"
    /\ dl.pc = "done"
    /\ dl' = DlIdle
    /\ IF dl.result = "None"
       THEN /\ run' = NextFamily(
                   [run EXCEPT !.success = FALSE, !.version = "v6",
                               !.log = Append(@, LogEntry("None", "none", FALSE))])
            /\ ap' = ap
       ELSE IF ~config.IPSET_ENABLED
       THEN /\ run' = NextFamily(
                   [run EXCEPT !.log = Append(@, LogEntry("zone_file", "none", TRUE))])
            /\ ap' = ap
       ELSE /\ run' = [run EXCEPT !.pc = "apply"]
            /\ ap' = Entered(RunWriter, FinalName(Country, run.version),
                             files[dl.result])
    /\ UNCHANGED <<ctl, host, files, config, sets, refs, prev, applied, chain, fw>>

\* download_zone has returned:  if zone_file: (if ipset_enabled:
\* populate_ipset_from_file(ipset_name, zone_file))  else: success = False
RunFetched ==
    /\ run.pc = "fetch"
    /\ dl.pc = "done"
    /\ dl' = DlIdle
    /\ IF dl.result = "None"
       THEN /\ run' = NextFamily(
                   [run EXCEPT !.success = FALSE,
                               !.log = Append(@, LogEntry("None", "none", FALSE))])
            /\ ap' = ap
       ELSE IF ~config.IPSET_ENABLED
       THEN /\ run' = NextFamily(
                   [run EXCEPT !.log = Append(@, LogEntry("zone_file", "none", TRUE))])
            /\ ap' = ap
       ELSE /\ run' = [run EXCEPT !.pc = "apply"]
            /\ ap' = Entered(RunWriter, FinalName(Country, run.version),
                             files[dl.result])
    /\ UNCHANGED <<ctl, host, files, config, sets, refs, prev, applied, chain, fw>>

\* populate_ipset_from_file has returned:  if not ...: success = False
RunApplied ==
    /\ run.pc = "apply"
    /\ ap[RunWriter].pc = "done"
    /\ LET a == ap[RunWriter]
           held == /\ a.stagedDone
                   /\ sets[a.name].exists
                   /\ sets[a.name].members = a.staged
       IN  run' = NextFamily(
               [run EXCEPT !.success = @ /\ (a.result = "ok"),
                           !.log = Append(@,
                               LogEntry("zone_file", a.result, held))])
    /\ ap' = [ap EXCEPT ![RunWriter] = Idle]
    /\ UNCHANGED <<ctl, host, files, config, sets, refs, prev, applied, dl, chain, fw>>

\* DEFAULT_CONFIG of the fetcher with the COUNTRIES of the file
RunConfigs ==
    [FETCH_IPV4 : BOOLEAN, FETCH_IPV6 : BOOLEAN,
     HTTP_RETRIES : {2}, HTTP_RETRY_DELAY : {5},
     OUTPUT_DIR : {"/var/lib/ipdeny"}, IPSET_ENABLED : BOOLEAN,
     COUNTRIES : {<<>>, <<"nl">>, <<"nl", "de">>}]

\* the (country, family) pairs a run with this configuration deals with
Families(c) ==
    (IF c.FETCH_IPV4 THEN {"v4"} ELSE {}) \cup (IF c.FETCH_IPV6 THEN {"v6"} ELSE {})

(***************************************************************************)
(* ipdeny-ctl: the remove-rules and the uninstall command of the control   *)
(* tool.  Both are run as root.                                            *)
(***************************************************************************)
MaxRules == 2          \* longest INPUT chain the control tool meets, per table

\* no command of the control tool is running
CtlIdle ==
    [pc |-> "idle", cmd |-> "none", table |-> 1, line_num |-> 0,
     removed |-> 0, ipsets |-> <<>>, i |-> 0, result |-> "none",
     \* history of the command, kept for stating the properties
     confirmed |-> FALSE, listFailed |-> FALSE, delFailed |-> FALSE,
     before |-> NoChain, entry |-> <<>>, issued |-> {}]

\* what the installer has put on the host: the units in SYSTEMD_DIR and
\* their enablement, INSTALL_DIR with the wrappers, /etc/ipdeny
Installation ==
    [services |-> "enabled", units |-> TRUE, binaries |-> TRUE,
     configuration |-> TRUE]

\* str.lower() on the answers typed at a prompt
Lower(response) == IF response = "Y" THEN "y" ELSE response

Responses == {"y", "Y", "n", ""}

\* prefix = self.config['IPSET_PREFIX'] ; the names of  ipset list -n  that
\* start with f"{prefix}-"
get_ipsets ==
    SelectSeq(ListOrder, LAMBDA n :
        sets[n].exists /\ StartsWith(n, config.IPSET_PREFIX \o "-"))

CtlTable == Tables[ctl.table]

\* the number of the first listed line with 'ipdeny-' in it, 0 for None
FirstLine(rules) ==
    LET found == {i \in DOMAIN rules :
                     Contains(ListedText(rules[i]), "ipdeny-")}
    IN  IF found = {} THEN 0 ELSE Min(found)

\* break: the while loop of this table is left for the next table, and
\* after the last table cmd_remove_rules returns 0 to its caller
CtlBreak(c) ==
    IF c.table < Len(Tables)
    THEN [c EXCEPT !.pc = "list", !.table = @ + 1, !.line_num = 0]
    ELSE IF c.cmd = "uninstall"
    THEN [c EXCEPT !.pc = "get_ipsets", !.line_num = 0]
    ELSE [c EXCEPT !.pc = "done", !.line_num = 0, !.result = "0"]

\* what a command finds when it is entered
CtlEntry == [chain |-> chain, sets |-> sets, host |-> host, files |-> files]

\* ipdeny-ctl remove-rules
CtlRemoveRulesStart ==
    /\ ctl.pc = "idle"
    /\ ctl' = [CtlIdle EXCEPT !.pc = "list", !.cmd = "remove_rules",
                              !.before = chain, !.entry = CtlEntry]
    /\ UNCHANGED <<host, files, config, sets, refs, ap, prev, applied, dl,
                   chain, fw, run>>

\* iptables -L INPUT -n --line-numbers , then the search for the first line
\* with 'ipdeny-' ;  if line_num is None: break
CtlList ==
    /\ ctl.pc = "list"
    /\ LET line_num == FirstLine(chain[CtlTable])
       IN  ctl' = IF line_num = 0
                  THEN CtlBreak(ctl)
                  ELSE [ctl EXCEPT !.pc = "delete", !.line_num = line_num]
    /\ UNCHANGED <<host, files, config, sets, refs, ap, prev, applied, dl,
                   chain, fw, run>>

\* the listing returns non-zero:  if returncode != 0: break
CtlListFault ==
    /\ ctl.pc = "list"
    /\ ctl' = CtlBreak([ctl EXCEPT !.listFailed = TRUE])
    /\ UNCHANGED <<host, files, config, sets, refs, ap, prev, applied, dl,
                   chain, fw, run>>

\* iptables -D INPUT line_num  returns 0
CtlDelete ==
    /\ ctl.pc = "delete"
    /\ chain' = [chain EXCEPT ![CtlTable] = DeleteAt(@, ctl.line_num)]
    /\ refs' = RefsOf(chain')
    /\ ctl' = [ctl EXCEPT !.pc = "list", !.removed = @ + 1, !.line_num = 0]
    /\ UNCHANGED <<host, files, config, sets, ap, prev, applied, dl, fw, run>>

\* a failed delete after which the loop goes on
CtlDeleteFaultGoesOn ==
    /\ ctl.pc = "delete"
    /\ ctl' = [ctl EXCEPT !.pc = "list", !.line_num = 0, !.delFailed = TRUE]
    /\ UNCHANGED <<host, files, config, sets, refs, ap, prev, applied, dl,
                   chain, fw, run>>

\* iptables -D returns non-zero:  print the failure and break
CtlDeleteFault ==
    /\ ctl.pc = "delete"
    /\ ctl' = CtlBreak([ctl EXCEPT !.delFailed = TRUE])
    /\ UNCHANGED <<host, files, config, sets, refs, ap, prev, applied, dl,
                   chain, fw, run>>

\* ipdeny-ctl uninstall:  response = input("Continue? [y/N]: ") ;
\* if response.lower() != 'y': print("Cancelled"); return 0
CtlUninstallStart(response) ==
    /\ ctl.pc = "idle"
    /\ LET entered == [CtlIdle EXCEPT !.cmd = "uninstall", !.before = chain,
                                      !.entry = CtlEntry]
       IN  ctl' = IF Lower(response) # "y"
                  THEN [entered EXCEPT !.pc = "done", !.result = "0"]
                  ELSE [entered EXCEPT !.pc = "stop", !.confirmed = TRUE]
    /\ UNCHANGED <<host, files, config, sets, refs, ap, prev, applied, dl,
                   chain, fw, run>>

\* self.cmd_stop():  systemctl stop and disable of the timer and the service,
\* then self.cmd_remove_rules()
CtlStop ==
    /\ ctl.pc = "stop"
    /\ host' = [host EXCEPT !.services = "disabled"]
    /\ ctl' = [ctl EXCEPT !.pc = "list", !.table = 1]
    /\ UNCHANGED <<files, config, sets, refs, ap, prev, applied, dl, chain,
                   fw, run>>

\* ipsets = self.get_ipsets()
CtlGetIpsets ==
    /\ ctl.pc = "get_ipsets"
    /\ ctl' = [ctl EXCEPT !.pc = "destroy", !.ipsets = get_ipsets, !.i = 1]
    /\ UNCHANGED <<host, files, config, sets, refs, ap, prev, applied, dl,
                   chain, fw, run>>

\* ipset list -n  returns non-zero:  return []
CtlGetIpsetsFault ==
    /\ ctl.pc = "get_ipsets"
    /\ ctl' = [ctl EXCEPT !.pc = "destroy", !.ipsets = <<>>, !.i = 1]
    /\ UNCHANGED <<host, files, config, sets, refs, ap, prev, applied, dl,
                   chain, fw, run>>

\* for setname in ipsets: self.run_command(['ipset', 'destroy', setname]) ,
\* the return code is not looked at; the kernel refuses a set in use
CtlDestroy ==
    /\ ctl.pc = "destroy"
    /\ ctl.i <= Len(ctl.ipsets)
    /\ LET setname == ctl.ipsets[ctl.i]
       IN  /\ sets' = IF CanDestroy(setname) THEN KDestroy(setname) ELSE sets
           /\ ctl' = [ctl EXCEPT !.i = @ + 1, !.issued = @ \cup {setname}]
    /\ UNCHANGED <<host, files, config, refs, ap, prev, applied, dl, chain,
                   fw, run>>

\* the units in SYSTEMD_DIR, systemctl daemon-reload, rm -rf INSTALL_DIR and
\* the wrappers in /usr/local/bin
CtlRemoveInstallation ==
    /\ ctl.pc = "destroy"
    /\ ctl.i > Len(ctl.ipsets)
    /\ host' = [host EXCEPT !.units = FALSE, !.binaries = FALSE]
    /\ ctl' = [ctl EXCEPT !.pc = "ask_config"]
    /\ UNCHANGED <<files, config, sets, refs, ap, prev, applied, dl, chain,
                   fw, run>>

\* input("Remove configuration in /etc/ipdeny? [y/N]: ")
CtlAskConfig(response) ==
    /\ ctl.pc = "ask_config"
    /\ host' = IF Lower(response) = "y"
               THEN [host EXCEPT !.configuration = FALSE]
               ELSE host
    /\ ctl' = [ctl EXCEPT !.pc = "ask_data"]
    /\ UNCHANGED <<files, config, sets, refs, ap, prev, applied, dl, chain,
                   fw, run>>

\* input("Remove zone files in /var/lib/ipdeny? [y/N]: ") ,
\* rm -rf /var/lib/ipdeny , return 0
CtlAskData(response) ==
    /\ ctl.pc = "ask_data"
    /\ files' = IF Lower(response) = "y"
                THEN [path \in Paths |->
                         IF StartsWith(path, "/var/lib/ipdeny/")
                         THEN NoFile
                         ELSE files[path]]
                ELSE files
    /\ ctl' = [ctl EXCEPT !.pc = "done", !.result = "0"]
    /\ UNCHANGED <<host, config, sets, refs, ap, prev, applied, dl, chain,
                   fw, run>>

\* the sets of both prefixes
CtlNames == Finals \cup OtherFinals

\* the rules the control tool meets in the INPUT chain of a table: the rules
\* the firewall updater has added for the sets of the prefix, and a rule of
\* other origin
CtlRules(prefix, table) ==
    {ToolRule(n) : n \in {m \in CtlNames :
                             /\ TableOf(m) = table
                             /\ StartsWith(m, prefix \o "-")}}
        \cup {ForeignRule}

CtlChains(prefix) ==
    [iptables : SeqsUpTo(CtlRules(prefix, "iptables"), MaxRules),
     ip6tables : SeqsUpTo(CtlRules(prefix, "ip6tables"), MaxRules)]

\* the sets of the configured prefix exist, and every set a rule names; a
\* zone file of an earlier fetch is on the disk
InitCtl ==
    /\ config \in [IPSET_PREFIX : {IPSET_PREFIX, OtherPrefix}]
    /\ chain \in CtlChains(config.IPSET_PREFIX)
    /\ refs = RefsOf(chain)
    /\ sets = [n \in SetNames |->
                  IF \/ n \in refs
                     \/ n \in CtlNames /\ StartsWith(n, config.IPSET_PREFIX \o "-")
                  THEN [exists |-> TRUE, family |-> FamilyOf(n),
                        members |-> {"2.0.0.0/8"}]
                  ELSE Absent]
    /\ ap = [p \in Writers |-> Idle]
    /\ prev = NoPrev
    /\ applied = {}
    /\ dl = DlIdle
    /\ fw = FwIdle
    /\ run = RunIdle
    /\ files = [NoFiles EXCEPT ![ZonePath("/var/lib/ipdeny", "nl", "v4")] =
                                   <<"1.0.0.0/8\n">>]
    /\ ctl = CtlIdle
    /\ host = Installation

\* ipdeny-ctl remove-rules
NextRemoveRules ==
    \/ CtlRemoveRulesStart
    \/ CtlList
    \/ CtlListFault
    \/ CtlDelete
    \/ CtlDeleteFault

\* a started command is not stopped: each of its steps is taken in the end
SpecRemoveRules ==
    InitCtl /\ [][NextRemoveRules]_vars /\ WF_vars(NextRemoveRules)

\* ipdeny-ctl uninstall
NextUninstall ==
    \/ \E response \in Responses : CtlUninstallStart(response)
    \/ CtlStop
    \/ CtlList
    \/ CtlListFault
    \/ CtlDelete
    \/ CtlDeleteFault
    \/ CtlGetIpsets
    \/ CtlGetIpsetsFault
    \/ CtlDestroy
    \/ CtlRemoveInstallation
    \/ \E response \in Responses : CtlAskConfig(response)
    \/ \E response \in Responses : CtlAskData(response)

SpecUninstall == InitCtl /\ [][NextUninstall]_vars

\* the sets an earlier run has left, each referenced by its rule
Installed ==
    [n \in SetNames |->
        IF n \in Finals \cup MoreFinals
        THEN [exists |-> TRUE, family |-> FamilyOf(n),
              members |-> {"2.0.0.0/8"}]
        ELSE Absent]

\* DEFAULT_CONFIG, with the family toggles of the configuration file
Configs ==
    [FETCH_IPV4 : BOOLEAN, FETCH_IPV6 : BOOLEAN,
     HTTP_RETRIES : {3}, HTTP_RETRY_DELAY : {5},
     OUTPUT_DIR : {"/var/lib/ipdeny"}]

\* no set, no rule, nothing running; one family is switched on
Init ==
    /\ config \in {c \in Configs : c.FETCH_IPV4 # c.FETCH_IPV6}
    /\ sets = [n \in SetNames |-> Absent]
    /\ refs = {}
    /\ ap = [p \in Writers |-> Idle]
    /\ prev = NoPrev
    /\ applied = {}
    /\ dl = DlIdle
    /\ chain = NoChain
    /\ fw = FwIdle
    /\ run = RunIdle
    /\ files = NoFiles
    /\ ctl = CtlIdle
    /\ host = Installation

Next ==
    \/ \E p \in Writers : ApplyStep(p)
    \/ \E n \in SetNames : AddRule(n)
    \/ \E n \in SetNames : RemoveRule(n)

Spec == Init /\ [][Next]_vars

\* the retry settings of the configuration file; both families fetched
RetryDelays == {0, 5, 7}

InitFetch ==
    /\ config \in [FETCH_IPV4 : {TRUE}, FETCH_IPV6 : {TRUE},
                    HTTP_RETRIES : 0..MaxRetriesBound,
                    HTTP_RETRY_DELAY : RetryDelays, OUTPUT_DIR : OutputDirs]
    /\ sets = [n \in SetNames |-> Absent]
    /\ refs = {}
    /\ ap = [p \in Writers |-> Idle]
    /\ prev = NoPrev
    /\ applied = {}
    /\ dl = DlIdle
    /\ chain = NoChain
    /\ fw = FwIdle
    /\ run = RunIdle
    /\ files = NoFiles
    /\ ctl = CtlIdle
    /\ host = Installation

NextFetch ==
    \/ DownloadStart
    \/ \E o \in Outcomes : Attempt(o)
    \/ Sleep
    \/ Exhausted
    \/ DownloadReturn

SpecFetch == InitFetch /\ [][NextFetch]_vars

(***************************************************************************)
(* Two fetcher processes at once (the timer's run and a run by hand): each *)
(* calls populate_ipset_from_file once; no command fails for a reason      *)
(* outside the set state.                                                  *)
(***************************************************************************)
TwoWriters == {1, 2}

\* the zone files the two processes have downloaded
TwoZones == {<<"1.0.0.0/8\n">>, <<" 2.0.0.0/8 \n">>}

\* process_country of one process calls populate_ipset_from_file, whatever
\* the other process is doing
TwoStart(p) ==
    /\ ap[p].pc = "idle"
    /\ \E country \in Countries, version \in Versions, zone_file \in TwoZones :
           /\ Enabled(version)
           /\ ap' = [Entered(p, FinalName(country, version), zone_file)
                        EXCEPT ![p].overlap =
                            \E q \in TwoWriters \ {p} :
                                ap[q].pc \notin {"idle", "done"}]
    /\ UNCHANGED <<ctl, host, files, config, chain, fw, run, sets, refs, prev, applied, dl>>

\* no set, or the sets of an earlier run, with or without their rules
InitTwo ==
    /\ config \in {c \in Configs : c.FETCH_IPV4 /\ c.FETCH_IPV6}
    /\ sets \in {[n \in SetNames |-> Absent], Installed}
    /\ refs \in IF sets = Installed THEN {{}, Finals \cup MoreFinals} ELSE {{}}
    /\ ap = [p \in TwoWriters |-> Idle]
    /\ prev = NoPrev
    /\ applied = {}
    /\ dl = DlIdle
    /\ chain = NoChain
    /\ fw = FwIdle
    /\ run = RunIdle
    /\ files = NoFiles
    /\ ctl = CtlIdle
    /\ host = Installation

NextTwo ==
    \/ \E p \in TwoWriters : TwoStart(p)
    \/ \E p \in TwoWriters : ApplyCommands(p)

SpecTwo == InitTwo /\ [][NextTwo]_vars

\* no set, no rule; the firewall updater's configuration
InitFw ==
    /\ config \in FwConfigs
    /\ sets = [n \in SetNames |-> Absent]
    /\ refs = {}
    /\ ap = [p \in Writers |-> Idle]
    /\ prev = NoPrev
    /\ applied = {}
    /\ dl = DlIdle
    /\ chain = NoChain
    /\ fw = FwIdle
    /\ run = RunIdle
    /\ files = NoFiles
    /\ ctl = CtlIdle
    /\ host = Installation

\* the sets the firewall updater meets
FwNames == Finals \cup {TempName(FinalName("nl", "v4"))} \cup OtherFinals

NextFw ==
    \/ FwStart
    \/ FwStartListFault
    \/ FwAddRule
    \/ FwAddRuleFault
    \/ FwAddDone
    \/ FwListRules
    \/ FwListRulesFault
    \/ FwDelete
    \/ FwDeleteFault
    \/ FwTableDone
    \/ FwReturn
    \/ \E n \in FwNames : SetCreated(n)
    \/ \E n \in FwNames : SetDestroyed(n)
    \/ PrefixChanged
    \/ \E t \in {"iptables", "ip6tables"} :
           \E num \in 1..(Len(chain[t]) + 1) :
               \E rule \in ForeignRules(t) : ForeignInserted(t, num, rule)

SpecFw == InitFw /\ [][NextFw]_vars

\* the firewall updater with the default prefix, the sets of one country
\* and an existence check that can fail
InitCheck ==
    /\ config \in {c \in FwConfigs :
                      c.FIREWALL_ENABLED /\ c.IPSET_PREFIX = IPSET_PREFIX}
    /\ sets = [n \in SetNames |-> Absent]
    /\ refs = {}
    /\ ap = [p \in Writers |-> Idle]
    /\ prev = NoPrev
    /\ applied = {}
    /\ dl = DlIdle
    /\ chain = NoChain
    /\ fw = FwIdle
    /\ run = RunIdle
    /\ files = NoFiles
    /\ ctl = CtlIdle
    /\ host = Installation

NextCheck ==
    \/ FwStart
    \/ FwAddRule
    \/ FwAddRuleCheckFault
    \/ FwAddRuleFault
    \/ FwAddDone
    \/ FwListRules
    \/ FwTableDone
    \/ FwReturn
    \/ \E n \in Finals : SetCreated(n)
    \/ \E n \in Finals : SetDestroyed(n)

SpecCheck == InitCheck /\ [][NextCheck]_vars

(***************************************************************************)
(* The fetcher and the firewall updater under a prefix of the             *)
(* administrator's choice: process_country names the set, apply creates   *)
(* it, the updater's loop picks the table of its rule.                    *)
(***************************************************************************)
\* values of IPSET_PREFIX in the configuration file
FamilyPrefixes == {IPSET_PREFIX, "geo-v6"}

\* ipset_name = f"{prefix}-{country}-v4" / f"{prefix}-{country}-v6"
PrefixedName(prefix, country, version) ==
    prefix \o "-" \o country \o "-" \o version

FamilyNames(prefix) ==
    LET finals == {PrefixedName(prefix, c, v) : c \in Countries, v \in Versions}
    IN  finals \cup {TempName(n) : n \in finals}

\* process_country calls populate_ipset_from_file with the configured
\* prefix
FamilyStart(p) ==
    /\ AllIdle
    /\ \E country \in Countries, version \in Versions, zone_file \in TwoZones :
           ap' = Entered(p, PrefixedName(config.IPSET_PREFIX, country, version),
                         zone_file)
    /\ UNCHANGED <<ctl, host, files, config, chain, fw, run, sets, refs, prev, applied, dl>>

\* one pass of the updater's loop for an enumerated set without a rule:
\* ipv6 = '-v6' in setname ; add_rule(chain, setname, action, ipv6)
PlaceRule(setname) ==
    /\ AllIdle
    /\ sets[setname].exists
    /\ StartsWith(setname, config.IPSET_PREFIX \o "-")
    /\ ~rule_exists(TableOf(setname), setname)
    /\ chain' = [chain EXCEPT ![TableOf(setname)] = Append(@, ToolRule(setname))]
    /\ refs' = refs \cup {setname}
    /\ UNCHANGED <<ctl, host, files, config, fw, run, sets, ap, prev, applied, dl>>

InitFamily ==
    /\ config \in [IPSET_PREFIX : FamilyPrefixes,
                    FETCH_IPV4 : {TRUE}, FETCH_IPV6 : {TRUE},
                    FIREWALL_ENABLED : {TRUE}]
    /\ sets = [n \in FamilyNames(config.IPSET_PREFIX) |-> Absent]
    /\ refs = {}
    /\ ap = [p \in Writers |-> Idle]
    /\ prev = NoPrev
    /\ applied = {}
    /\ dl = DlIdle
    /\ chain = NoChain
    /\ fw = FwIdle
    /\ run = RunIdle
    /\ files = NoFiles
    /\ ctl = CtlIdle
    /\ host = Installation

\* the commands a process working alone meets when every command answers
\* as the state of the sets dictates
ApplyAlone(p) ==
    \/ CreateTempExists(p) \/ CreateTemp(p)
    \/ AddLine(p) \/ StageDone(p)
    \/ FlushFinalExists(p) \/ FlushFinal(p)
    \/ DestroyFinalExists(p) \/ DestroyFinal(p)
    \/ Rename(p) \/ RenameFailedExists(p)
    \/ Swap(p)
    \/ DestroyTempExists(p) \/ DestroyTempFlushExists(p)
    \/ DestroyTempFlush(p)
    \/ DestroyTemp(p)

NextPrefixed ==
    \/ FamilyStart(RunWriter)
    \/ ApplyAlone(RunWriter)
    \/ ApplyReturn(RunWriter)
    \/ \E n \in DOMAIN sets : PlaceRule(n)

SpecFamily == InitFamily /\ [][NextPrefixed]_vars

\* a first run on a machine without sets, or a later run with the sets
\* and rules in place
InitRun ==
    /\ config \in {c \in RunConfigs :
                       Len(c.COUNTRIES) * Cardinality(Families(c)) <= MaxPairs}
    /\ \/ sets = [n \in SetNames |-> Absent] /\ refs = {}
       \/ sets = Installed /\ refs = Finals \cup MoreFinals
    /\ ap = [p \in Writers |-> Idle]
    /\ prev = NoPrev
    /\ applied = {}
    /\ dl = DlIdle
    /\ chain = NoChain
    /\ fw = FwIdle
    /\ run = RunIdle
    /\ files = NoFiles
    /\ ctl = CtlIdle
    /\ host = Installation

NextRun ==
    \/ RunStart
    \/ RunProcessCountry
    \/ RunFamily
    \/ \E o \in Outcomes : Attempt(o)
    \/ Sleep
    \/ Exhausted
    \/ RunFetched
    \/ ApplyBody(RunWriter)
    \/ RunApplied

SpecRun == InitRun /\ [][NextRun]_vars

(***************************************************************************)
(* Properties of apply (populate_ipset_from_file), under Spec.             *)
(***************************************************************************)
FinalSet(p) == sets[Final(p)]
TempSet(p) == sets[Temp(p)]

\* C1: once an apply to a final name has succeeded, a set of that name
\* exists at every instant, also between the commands of a later apply.
C1_FinalNeverAbsent == \A n \in applied : sets[n].exists

\* C2: while an apply replaces an existing final set, the final set's
\* membership is at every instant the complete old membership or the
\* complete newly staged membership (never empty, never a mix).
C2_OldOrNewMembership ==
    \A p \in Writers :
        (ap[p].pc # "idle" /\ ap[p].old.exists) =>
            /\ FinalSet(p).exists
            /\ \/ FinalSet(p).members = ap[p].old.members
               \/ ap[p].stagedDone /\ FinalSet(p).members = ap[p].staged

\* C3: when destroy(final) reports busy because a rule references final
\* (and no command fails for another reason, no rule holds the staging
\* set), apply returns success through the swap fallback, final holds the
\* staged membership and the temp set is gone.
C3_BusyFallsBackToSwap ==
    \A p \in Writers :
        (/\ ap[p].pc = "done"
         /\ ap[p].busy
         /\ ~ap[p].faulted
         /\ Temp(p) \notin refs) =>
            /\ ap[p].result = "ok"
            /\ ap[p].path = "swap"
            /\ FinalSet(p).exists
            /\ FinalSet(p).members = ap[p].staged
            /\ ~TempSet(p).exists

C3_Witness ==
    \E p \in Writers :
        /\ ap[p].pc = "done" /\ ap[p].busy /\ ~ap[p].faulted
        /\ Temp(p) \notin refs
        /\ ap[p].path = "swap"
        /\ ap[p].old.members # {} /\ ap[p].staged # {}
        /\ ap[p].staged # ap[p].old.members

\* C4: the temp set does not exist when apply returns, on every exit
\* path, also when the destroy of the temp set reports an error.
C4_TempGoneOnReturn ==
    \A p \in Writers : ap[p].pc = "done" => ~TempSet(p).exists

\* C5: a second apply in a row with the same zone file on the same final
\* name leaves the final membership the first one left, referenced or not
\* (both calls nominal: no command failing for a reason outside the sets).
C5_ApplyTwiceSameMembership ==
    \A p \in Writers :
        (ap[p].pc = "done" /\ ap[p].repeat /\ Nominal(p)) =>
            /\ ap[p].result = "ok"
            /\ FinalSet(p).exists
            /\ FinalSet(p).members = ap[p].prevMembers

C5_Witness ==
    \E p \in Writers :
        /\ ap[p].pc = "done" /\ ap[p].repeat /\ Nominal(p)
        /\ Final(p) \in refs
        /\ ap[p].path = "swap"
        /\ Cardinality(ap[p].prevMembers) = 2

\* line[i..j] is the line without its leading and trailing whitespace
IsTrimOf(line, i, j) ==
    /\ \A k \in 1..(i - 1) : SubSeq(line, k, k) \in Whitespace
    /\ \A k \in (j + 1)..Len(line) : SubSeq(line, k, k) \in Whitespace
    /\ IF i <= j
       THEN /\ SubSeq(line, i, i) \notin Whitespace
            /\ SubSeq(line, j, j) \notin Whitespace
       ELSE j = i - 1

Trimmed(line) ==
    LET ij == CHOOSE ij \in (1..(Len(line) + 1)) \X (0..Len(line)) :
                  IsTrimOf(line, ij[1], ij[2])
    IN  SubSeq(line, ij[1], ij[2])

\* the lines of a zone file that are non-blank and no comment, trimmed
TrimmedLine == [line \in Lines |-> Trimmed(line)]

EntriesOf(zone) ==
    LET trimmed == [k \in DOMAIN zone |-> TrimmedLine[zone[k]]]
    IN  {trimmed[k] :
            k \in {i \in DOMAIN zone : /\ trimmed[i] # ""
                                      /\ SubSeq(trimmed[i], 1, 1) # "#"}}

\* C6: the staged set holds exactly the zone file's trimmed lines that
\* are non-blank and do not start with '#', and after a successful apply
\* the final set holds exactly them (every add succeeding).
C6_StagedIsExactlyTheEntries ==
    \A p \in Writers :
        (Nominal(p) /\ ~ap[p].addFailed) =>
            /\ ap[p].stagedDone => ap[p].staged = EntriesOf(ap[p].zone)
            /\ (ap[p].pc = "done" /\ ap[p].result = "ok") =>
                   /\ FinalSet(p).exists
                   /\ FinalSet(p).members = EntriesOf(ap[p].zone)

C6_Witness ==
    \E p \in Writers :
        /\ ap[p].pc = "done" /\ ap[p].result = "ok"
        /\ Nominal(p) /\ ~ap[p].addFailed
        /\ Len(ap[p].zone) = 2
        /\ \E i \in DOMAIN ap[p].zone : StartsWith(Strip(ap[p].zone[i]), "#")
        /\ Cardinality(FinalSet(p).members) = 1

\* C7: a create or a swap that could not be carried out makes apply
\* return failure; a failed swap does so in the branch where final still
\* exists and in the branch where final was re-created.
C7_FailedSwapReported ==
    \A p \in Writers :
        ap[p].pc = "done" =>
            /\ ap[p].path \in {"create_temp_failed", "create_final_failed"}
                   => ap[p].result = "fail"
            /\ ap[p].swapFailed => ap[p].result = "fail"

\* C19: a range that  ipset add  refuses does not end the staging loop:
\* once the loop is left without a read error, every non-blank,
\* non-comment line of the zone file has been submitted to the temp set
\* and apply is in (or past) the replacement steps.
C19_AddFailureDoesNotAbort ==
    \A p \in Writers :
        (/\ ap[p].pc \notin {"idle", "ct_exists", "ct_create", "add"}
         /\ ap[p].path \notin {"create_temp_failed", "read_error"}) =>
            /\ ap[p].stagedDone
            /\ ap[p].submitted = EntriesOf(ap[p].zone)

C19_Witness ==
    \E p \in Writers :
        /\ ap[p].pc = "done" /\ ap[p].result = "ok"
        /\ ap[p].addFailed /\ ~ap[p].faulted
        /\ ap[p].zone = <<"bad\n", "1.0.0.0/8\n">>
        /\ FinalSet(p).members = {"1.0.0.0/8"}

\* C20: destroy_ipset on a set a rule references returns something other
\* than what it returns for a genuine destroy error.
C20_BusyDistinctFromError ==
    \A p \in Writers :
        ap[p].dcause = "busy" => ap[p].dret # destroy_returns("error")

\* C26: when the loop over the zone file begins, right after
\* create_ipset(temp_name), the staging set holds no member, also when a
\* set of that name was left by an earlier call.
C26_StagingSetClean ==
    \A p \in Writers :
        (ap[p].pc = "add" /\ ap[p].idx = 1) => TempSet(p).members = {}

\* C27: as long as the loop over the zone file has not dealt with every
\* line, the final set is what it was when apply began (no flush, destroy,
\* rename or swap has reached it); after a read error it stays so until
\* apply returns.
C27_FinalUntouchedUntilStaged ==
    \A p \in Writers :
        ap[p].pc # "idle" =>
            /\ FinalSet(p) # ap[p].old =>
                   ap[p].stagedDone /\ ap[p].submitted = EntriesOf(ap[p].zone)
            /\ ap[p].path = "read_error" => FinalSet(p) = ap[p].old

\* an apply onto an existing final set with members has returned after a
\* read error that came when a range had been submitted
C27_Witness ==
    \E p \in Writers :
        /\ ap[p].pc = "done" /\ ap[p].path = "read_error"
        /\ ap[p].submitted # {}
        /\ ap[p].old.exists /\ ap[p].old.members # {}
        /\ FinalSet(p) = ap[p].old

\* C31: when apply returns failure the final set is what it was when the
\* call began: it exists as before and holds the same members.
C31_FailedApplyLeavesFinal ==
    \A p \in Writers :
        (ap[p].pc = "done" /\ ap[p].result = "fail") =>
            /\ FinalSet(p).exists = ap[p].old.exists
            /\ FinalSet(p).members = ap[p].old.members

(***************************************************************************)
(* Properties of reconcile (update_firewall), under SpecFw.                *)
(***************************************************************************)
\* a NamedSet: an existing set whose name starts with the configured prefix
IsNamedSet(n) == sets[n].exists /\ StartsWith(n, config.IPSET_PREFIX \o "-")

\* a tool rule whose matched set name is not a NamedSet
Orphaned(rule) == rule.tool /\ ~IsNamedSet(rule.setname)

\* the rule list without the rules at the given positions
Without(rules, positions) ==
    LET keep == SortedAscending(DOMAIN rules \ positions)
    IN  [k \in DOMAIN keep |-> rules[keep[k]]]

\* C12: a second reconcile in a row (the first met no failing command, no
\* set was created or destroyed, no rule matching a set was inserted and
\* the prefix was not changed in between) appends no rule and deletes no
\* rule.
C12_SecondReconcileChangesNothing ==
    (fw.repeat /\ ~fw.faulted) =>
        /\ fw.appended = {}
        /\ fw.delTried = 0
        /\ fw.removed = 0
        /\ fw.pc \in {"list", "delete", "done"} => chain = fw.before

C12_Witness ==
    /\ fw.pc = "done" /\ fw.repeat /\ ~fw.faulted /\ fw.path = "full"
    /\ Len(fw.ipsets) >= 2
    /\ Len(chain["iptables"]) >= 2

\* C13: with rules for existing NamedSets and rules of orphaned sets in
\* the chain, a reconcile that meets no failing command deletes exactly the
\* orphaned rules and leaves every other rule in place, wherever the
\* orphaned rules stand.
C13_ExactlyOrphansDeleted ==
    (fw.pc = "done" /\ fw.path = "full" /\ ~fw.faulted) =>
        \A t \in {"iptables", "ip6tables"} :
            chain[t] = SelectSeq(fw.before[t], LAMBDA r : ~Orphaned(r))

\* C14: within a table the rules are deleted highest line number first, so
\* at every point of the delete loop the rule list is the listed one minus
\* the identified rules already deleted, in the listed order.
C14_DescendingDeleteKeepsPositions ==
    fw.pc = "delete" =>
        LET pending == {fw.rules_to_delete[k] : k \in DOMAIN fw.rules_to_delete}
            gone == fw.identified \ (pending \cup fw.delFailed)
        IN  chain[FwTable] = Without(fw.listed, gone)

C14_Witness ==
    /\ fw.pc = "delete" /\ fw.rules_to_delete = <<>>
    /\ fw.delFailed = {}
    /\ Cardinality(fw.identified) = 2
    /\ \E i \in DOMAIN fw.listed :
           /\ i \notin fw.identified
           /\ i > Min(fw.identified) /\ i < Max(fw.identified)

\* C15: after a reconcile that meets no failing command no orphaned rule
\* is left in the chain, also when no set with the configured prefix exists.
C15_NoOrphanLeft ==
    (fw.pc = "done" /\ config.FIREWALL_ENABLED /\ ~fw.faulted) =>
        \A t \in {"iptables", "ip6tables"} :
            \A i \in DOMAIN chain[t] : ~Orphaned(chain[t][i])

\* C16: after a reconcile in which the sets were listed and every append
\* succeeded, the chain holds the rule of every NamedSet, and the rules
\* appended by the call are rules of NamedSets.
C16_RuleForEveryNamedSet ==
    (/\ fw.pc = "done" /\ config.FIREWALL_ENABLED
     /\ ~fw.addFailed
     /\ ~(fw.path = "no_sets" /\ fw.faulted)) =>
        /\ \A n \in SetNames : IsNamedSet(n) => rule_exists(TableOf(n), n)
        /\ \A n \in fw.appended : IsNamedSet(n)

C16_Witness ==
    /\ fw.pc = "done" /\ fw.path = "full" /\ ~fw.addFailed
    /\ Cardinality(fw.appended) >= 2
    /\ \E n \in SetNames : sets[n].exists /\ ~IsNamedSet(n)
    /\ fw.removed >= 1

\* C17: a failed append or delete does not stop the call: add_rule is
\* called for every listed set, a delete is tried for every identified
\* rule of both tables, and the flag returned is true exactly when no add
\* failed, whatever the deletes did.
C17_BestEffortPerRule ==
    fw.pc = "done" =>
        /\ fw.result = "True" <=> ~fw.addFailed
        /\ fw.path = "full" =>
               /\ fw.attempted = {fw.ipsets[k] : k \in DOMAIN fw.ipsets}
               /\ fw.table = Len(Tables)
               /\ fw.delTried = fw.allIdentified

C17_Witness ==
    /\ fw.pc = "done" /\ fw.path = "full"
    /\ fw.addFailed /\ fw.result = "False"
    /\ fw.appended # {}
    /\ fw.allIdentified >= 2 /\ fw.removed = 1

\* C32: when  ipset list -n  fails, the call appends no rule, tries no
\* delete and leaves both chains as they were.
C32_ListFailureChangesNoRule ==
    (fw.path = "no_sets" /\ fw.faulted) =>
        /\ fw.appended = {} /\ fw.attempted = {}
        /\ fw.delTried = 0 /\ fw.removed = 0
        /\ chain = fw.before

\* the listing failed in a call that met an orphaned rule and an existing
\* NamedSet without a rule
C32_Witness ==
    /\ fw.pc = "done" /\ fw.path = "no_sets" /\ fw.faulted
    /\ \E t \in {"iptables", "ip6tables"} :
           \E i \in DOMAIN chain[t] : Orphaned(chain[t][i])
    /\ \E n \in SetNames : IsNamedSet(n) /\ ~rule_exists(TableOf(n), n)

\* the number of rules of the table that carry the tool's comment for the set
ToolRuleCount(t, n) ==
    Len(SelectSeq(chain[t], LAMBDA r : r.tool /\ r.setname = n))

\* C33: the chain of each table holds at most one rule with the tool's
\* comment per set name.
C33_OneToolRulePerSet ==
    \A t \in {"iptables", "ip6tables"} :
        \A n \in SetNames : ToolRuleCount(t, n) <= 1

EndsWith(s, post) ==
    Len(s) >= Len(post) /\ SubSeq(s, Len(s) - Len(post) + 1, Len(s)) = post

\* C35: a set whose name ends in -v4 is an inet set and has no rule in the
\* IPv6 table, a set whose name ends in -v6 is an inet6 set and has no rule
\* in the IPv4 table, whatever the prefix.
C35_FamilyFromFinalSuffix ==
    \A n \in DOMAIN sets :
        sets[n].exists =>
            /\ EndsWith(n, "-v4") =>
                   (sets[n].family = "inet" /\ ~rule_exists("ip6tables", n))
            /\ EndsWith(n, "-v6") =>
                   (sets[n].family = "inet6" /\ ~rule_exists("iptables", n))

\* the names the call enumerated
Enumerated == {fw.ipsets[k] : k \in DOMAIN fw.ipsets}

\* C28: of the listed rules that carry the tool's comment, the scan keeps
\* those whose matched set name is one of the enumerated names and marks
\* every other one for deletion, whatever else the rule's text contains.
C28_OrphanTestIsExactName ==
    (fw.pc = "delete" /\ ~fw.faulted) =>
        \A i \in DOMAIN fw.listed :
            fw.listed[i].tool =>
                (i \in fw.identified <=> fw.listed[i].setname \notin Enumerated)

\* C29: no rule that a reconcile appends matches a set whose name ends in
\* "-tmp".
C29_NoRuleForStagingSet ==
    \A n \in fw.appended : ~EndsWith(n, "-tmp")

\* a rule that carries neither the tool's comment nor a set name with the
\* configured prefix
IsForeign(rule) ==
    /\ ~Contains(ListedText(rule), "Country blocker:")
    /\ ~StartsWith(rule.setname, config.IPSET_PREFIX \o "-")

\* C30: no step of a reconcile removes or reorders a rule that carries
\* neither the tool's comment nor a set name with the tool's prefix.
C30_ForeignRulesKept ==
    [][fw.pc # "idle" =>
          \A t \in {"iptables", "ip6tables"} :
              SelectSeq(chain'[t], IsForeign) = SelectSeq(chain[t], IsForeign)
      ]_vars

(***************************************************************************)
(* Properties of fetch (download_zone), under SpecFetch.                   *)
(***************************************************************************)
Tries == SelectSeq(dl.events, LAMBDA e : e.kind = "try")

\* C8: fetch makes at most max_retries attempts, whatever the outcomes,
\* and none after the first successful one.
C8_AtMostMaxRetriesAttempts ==
    /\ Len(Tries) <= dl.max_retries
    /\ \A i \in DOMAIN dl.events :
           (dl.events[i].kind = "try" /\ dl.events[i].outcome.kind = "ok")
               => i = Len(dl.events)

C8_Witness ==
    /\ dl.pc = "done" /\ dl.result = "None"
    /\ dl.max_retries = 3
    /\ Len(Tries) = dl.max_retries

\* C9: every attempt after the first comes right after a sleep of
\* retry_delay * n, n the number of the attempt that just failed, and the
\* call does not sleep after its last attempt.
C9_SleepBeforeEveryRetry ==
    /\ \A i \in DOMAIN dl.events :
           (dl.events[i].kind = "try" /\ dl.events[i].attempt > 1) =>
               /\ i > 1
               /\ dl.events[i - 1].kind = "sleep"
               /\ dl.events[i - 1].wait =
                      dl.retry_delay * (dl.events[i].attempt - 1)
    /\ (dl.pc = "done" /\ dl.events # <<>>) =>
           dl.events[Len(dl.events)].kind = "try"

\* C10: an attempt that ends with an HTTP error status other than 502,
\* 503, 504 is the last attempt of the call.
C10_OtherHttpErrorFailsAtOnce ==
    \A i \in DOMAIN dl.events :
        (/\ dl.events[i].kind = "try"
         /\ dl.events[i].outcome.kind = "HTTPError"
         /\ dl.events[i].outcome.code \notin {502, 503, 504}) =>
            i = Len(dl.events)

\* C23: the attempt that succeeds writes the response body to
\* {output_dir}/{country}-{family}.zone, whatever that file held before,
\* changes no other file, and download_zone returns that path.
C23_BodyStoredAtZonePath ==
    [][(dl.pc = "attempt" /\ dl'.pc = "done" /\ dl'.result # "None") =>
          LET path == ZonePath(config.OUTPUT_DIR, dl.country, dl.version)
          IN  /\ dl'.result = path
              /\ files' = [files EXCEPT ![path] = dl'.body]]_vars

\* a download has succeeded onto a file that held another, non-empty body
C23_Witness ==
    /\ dl.pc = "done" /\ dl.result # "None"
    /\ dl.result = ZonePath(config.OUTPUT_DIR, dl.country, dl.version)
    /\ dl.body # <<>> /\ dl.earlier \notin {NoFile, <<>>, dl.body}
    /\ files[dl.result] = dl.body

(***************************************************************************)
(* Properties of apply with two processes at work, under SpecTwo.          *)
(***************************************************************************)
\* the process that takes the step
Steps(p) == ap'[p] # ap[p]

\* C21: create_ipset on a name that exists issues no command: no set
\* changes (family, members) and the caller goes on as after a create that
\* succeeded, for the staging set and for the final set alike.
C21_CreateOnExistingChangesNothing ==
    [][\A p \in DOMAIN ap :
          /\ (ap[p].pc = "ct_exists" /\ Steps(p) /\ TempSet(p).exists) =>
                 (sets' = sets /\ ap'[p].pc = "add")
          /\ (ap[p].pc = "cf_exists" /\ Steps(p) /\ FinalSet(p).exists) =>
                 (sets' = sets /\ ap'[p].pc = "swap_unchecked")]_vars

\* create_ipset has returned for a staging set that was there with members
C21_Witness ==
    \E p \in DOMAIN ap :
        /\ ap[p].pc = "add" /\ ap[p].idx = 1 /\ ~ap[p].fresh
        /\ TempSet(p).exists /\ TempSet(p).members # {}

\* the set a flush leaves when it finds the set with these fields
Emptied(set) == [exists |-> TRUE, family |-> set.family, members |-> {}]

\* C22: flush_ipset on a set that exists empties it and changes nothing
\* else: the set stays under its name with its family, the rule references
\* stay; flush_ipset on an absent set changes no set and the caller goes on.
C22_FlushEmptiesAndKeepsTheSet ==
    [][\A p \in DOMAIN ap :
          /\ (ap[p].pc = "ff_flush" /\ Steps(p) /\ FinalSet(p).exists) =>
                 /\ sets' = [sets EXCEPT ![Final(p)] = Emptied(@)]
                 /\ refs' = refs
          /\ (ap[p].pc = "dt_flush" /\ Steps(p) /\ TempSet(p).exists) =>
                 /\ sets' = [sets EXCEPT ![Temp(p)] = Emptied(@)]
                 /\ refs' = refs
          /\ (ap[p].pc = "ff_exists" /\ Steps(p) /\ ~FinalSet(p).exists) =>
                 (sets' = sets /\ refs' = refs /\ ap'[p].pc = "df_exists")
          /\ (ap[p].pc = "dtf_exists" /\ Steps(p) /\ ~TempSet(p).exists) =>
                 (sets' = sets /\ refs' = refs /\ ap'[p].pc = "dt_destroy")
      ]_vars

\* one process has flushed a final set that is referenced by a rule and
\* had members, a process has called flush_ipset on a set that was gone
C22_Witness ==
    /\ \E p \in DOMAIN ap :
           /\ ap[p].path = "swap" /\ ap[p].name \in refs
           /\ ap[p].old.members # {} /\ FinalSet(p).exists
    /\ \E q \in DOMAIN ap : ap[q].flushAbsent

\* the names an apply to this final name works on
OwnNames(name) == {name, name \o "-tmp"}

\* the call of p has returned as a call running alone returns
AsAlone(p) ==
    /\ ap[p].result = "ok"
    /\ sets[ap[p].name].exists
    /\ sets[ap[p].name].members = EntriesOf(ap[p].zone)
    /\ ~sets[ap[p].name \o "-tmp"].exists

\* C24: a step of an apply changes no set but the final set it is for and
\* that set's staging set; and an apply that has returned while no other
\* process worked on its final name has the result of a call running
\* alone, however the steps of the processes interleave.
C24_OtherFinalNamesUntouched ==
    /\ [][\A p \in DOMAIN ap :
             Steps(p) =>
                 \A n \in SetNames \ OwnNames(ap'[p].name) : sets'[n] = sets[n]
        ]_vars
    /\ [](\A p \in DOMAIN ap :
             (/\ ap[p].pc = "done"
              /\ \A q \in DOMAIN ap \ {p} : ap[q].name # ap[p].name) =>
                 AsAlone(p))

\* two calls for different final names have interleaved and returned
C24_Witness ==
    \E p, q \in DOMAIN ap :
        /\ ap[p].pc = "done" /\ ap[q].pc = "done"
        /\ ap[q].overlap
        /\ ap[p].name # ap[q].name /\ ap[p].zone # ap[q].zone
        /\ ap[p].old.exists /\ ap[p].name \in refs
        /\ AsAlone(p) /\ AsAlone(q)

\* both calls for one final name with different zone files have returned
BothReturned(p, q) ==
    /\ p # q
    /\ ap[p].pc = "done" /\ ap[q].pc = "done"
    /\ ap[p].name = ap[q].name /\ ap[p].zone # ap[q].zone

NeitherArtifact(p, q) ==
    sets[ap[p].name].members \notin {EntriesOf(ap[p].zone), EntriesOf(ap[q].zone)}

OneFailed(p, q) == ap[p].result = "fail" \/ ap[q].result = "fail"

TempLeft(p) == sets[ap[p].name \o "-tmp"].exists

\* C25: two calls for one final name with different zone files end with a
\* final set that holds neither file's ranges, or with a failed call, or
\* with the staging set left behind, only when the second call began
\* before the first had returned; and such an interleaving exists.
C25_UnsafeOnlyWhenConcurrent ==
    \A p, q \in DOMAIN ap :
        (/\ BothReturned(p, q)
         /\ NeitherArtifact(p, q) \/ OneFailed(p, q) \/ TempLeft(p)) =>
            ap[p].overlap \/ ap[q].overlap

\* two overlapping calls have returned success and the final set holds the
\* ranges of both zone files
C25_Witness ==
    \E p, q \in DOMAIN ap :
        /\ BothReturned(p, q) /\ ap[q].overlap
        /\ ap[p].result = "ok" /\ ap[q].result = "ok"
        /\ NeitherArtifact(p, q)

(***************************************************************************)
(* Properties of the fetcher run (run, process_country), under SpecRun.    *)
(***************************************************************************)
\* the (country, family) pairs the configuration asks for, in order
RECURSIVE IntendedPairs(_)
IntendedPairs(countries) ==
    IF countries = <<>> THEN <<>>
    ELSE (IF config.FETCH_IPV4 THEN <<[country |-> Head(countries), version |-> "v4"]>>
          ELSE <<>>)
         \o (IF config.FETCH_IPV6
             THEN <<[country |-> Head(countries), version |-> "v6"]>>
             ELSE <<>>)
         \o IntendedPairs(Tail(countries))

LogPairs ==
    [k \in DOMAIN run.log |->
        [country |-> run.log[k].country, version |-> run.log[k].version]]

\* C11: a fetch whose attempts all failed ends with the value None (no
\* exception leaves it), its pair is not applied, and the run still
\* fetches every other configured (country, family) pair.
C11_FailedFetchSkipsOnlyItsPair ==
    /\ (dl.pc = "done" /\ \A k \in DOMAIN Tries : Tries[k].outcome.kind # "ok")
           => dl.result = "None"
    /\ \A k \in DOMAIN run.log :
           run.log[k].fetch = "None" => run.log[k].apply = "none"
    /\ run.pc = "exit" => LogPairs = IntendedPairs(config.COUNTRIES)

C11_Witness ==
    /\ run.pc = "exit"
    /\ Len(run.log) = 2
    /\ run.log[1].fetch = "None"
    /\ run.log[2].fetch = "zone_file" /\ run.log[2].apply = "ok"

\* C18: the run exits with 0 exactly when every configured pair was
\* fetched and, with IPSET_ENABLED, applied with success (apply returned
\* True and the final set holds the staged membership); every configured
\* pair is dealt with whatever failed before it.
C18_ExitZeroIffAllSucceeded ==
    run.pc = "exit" =>
        /\ LogPairs = IntendedPairs(config.COUNTRIES)
        /\ run.exit = 0 <=>
               \A k \in DOMAIN run.log :
                   /\ run.log[k].fetch = "zone_file"
                   /\ run.log[k].apply # "none" =>
                          (run.log[k].apply = "ok" /\ run.log[k].held)

\* the final set name of the pair of a log entry, and its staging set
PairFinal(e) == IPSET_PREFIX \o "-" \o e.country \o "-" \o e.version

PairTemp(e) == PairFinal(e) \o "-tmp"

\* C34: for a pair whose fetch failed no apply is made and the pair's
\* final set and staging set stay what they were when the run began; when
\* it was the IPv4 fetch that failed and IPv6 is enabled, the IPv6 pair of
\* the country is fetched, and applied when that fetch succeeds.
C34_FailedFetchLeavesSets ==
    \A k \in DOMAIN run.log :
        run.log[k].fetch = "None" =>
            /\ run.log[k].apply = "none"
            /\ sets[PairFinal(run.log[k])] = run.entry[PairFinal(run.log[k])]
            /\ sets[PairTemp(run.log[k])] = run.entry[PairTemp(run.log[k])]
            /\ (run.pc = "exit" /\ run.log[k].version = "v4"
                    /\ config.FETCH_IPV6) =>
                   /\ k < Len(run.log)
                   /\ run.log[k + 1].country = run.log[k].country
                   /\ run.log[k + 1].version = "v6"
                   /\ (run.log[k + 1].fetch # "None" /\ config.IPSET_ENABLED)
                          => run.log[k + 1].apply # "none"

\* the IPv4 fetch of a country failed, its set still holds the members of
\* the earlier run, and the IPv6 set of the country was replaced
C34_Witness ==
    /\ run.pc = "exit" /\ Len(run.log) = 2
    /\ run.log[1].fetch = "None" /\ run.log[1].version = "v4"
    /\ run.entry[PairFinal(run.log[1])].members # {}
    /\ sets[PairFinal(run.log[1])] = run.entry[PairFinal(run.log[1])]
    /\ run.log[2].version = "v6" /\ run.log[2].apply = "ok"
    /\ sets[PairFinal(run.log[2])] # run.entry[PairFinal(run.log[2])]

\* C36: with IPSET_ENABLED off the run fetches every configured pair and
\* stores the files, no apply is entered and no set changes, and the run
\* exits with 0 exactly when every fetch succeeded.
C36_DisabledTouchesNoSet ==
    (~config.IPSET_ENABLED /\ run.pc # "idle") =>
        /\ sets = run.entry
        /\ ap[RunWriter].pc = "idle"
        /\ \A k \in DOMAIN run.log :
               /\ run.log[k].apply = "none"
               /\ run.log[k].fetch # "None" =>
                      files[ZonePath(config.OUTPUT_DIR, run.log[k].country,
                                     run.log[k].version)] # NoFile
        /\ run.pc = "exit" =>
               /\ LogPairs = IntendedPairs(config.COUNTRIES)
               /\ run.exit = 0 <=>
                      \A k \in DOMAIN run.log : run.log[k].fetch # "None"

\* a run with the switch off has fetched two pairs with ranges in the
\* files, over the sets of an earlier run, and exited with 0
C36_Witness ==
    /\ ~config.IPSET_ENABLED
    /\ run.pc = "exit" /\ run.exit = 0 /\ Len(run.log) = 2
    /\ \A k \in DOMAIN run.log :
           EntriesOf(files[ZonePath(config.OUTPUT_DIR, run.log[k].country,
                                    run.log[k].version)]) # {}
    /\ \E n \in SetNames : sets[n].members # {}

(***************************************************************************)
(* The control tool.                                                       *)
(***************************************************************************)
\* the listed line of the rule has 'ipdeny-' in it
HasIpdeny(rule) == Contains(ListedText(rule), "ipdeny-")

\* cmd_remove_rules has returned to the shell
CtlRulesRemoved == ctl.pc = "done" /\ ctl.cmd = "remove_rules"

\* no rule with 'ipdeny-' is left in either table, and the other rules are
\* the ones found at entry, in their order
CtlChainClean ==
    \A t \in DOMAIN chain :
        /\ \A i \in DOMAIN chain[t] : ~HasIpdeny(chain[t][i])
        /\ chain[t] = SelectSeq(ctl.before[t], LAMBDA r : ~HasIpdeny(r))

C38_RulesRemovedBeforeDestroy ==
    /\ ctl.cmd = "uninstall" /\ ~ctl.listFailed /\ ~ctl.delFailed
           => ctl.issued \cap refs = {}
    /\ ctl.cmd = "uninstall" /\ ctl.pc = "done" /\ ~ctl.confirmed
           => CtlEntry = ctl.entry

====
